---- MODULE Spec2Model ----
(***************************************************************************)
(* glide-kit: a typed at-least-once job runner on Valkey streams.          *)
(* The model covers the retry policy, the JSON codec, the producer, the    *)
(* consumer worker (both source versions), the retry daemon and the        *)
(* stream/sorted-set/key server state they share.                          *)
(***************************************************************************)
EXTENDS Integers, Sequences, FiniteSets, TLC

VARIABLES
    cfg,        \* options the worker, producer and daemon were made with
    now,        \* Date.now()
    xs,         \* main stream: sequence of field maps, the id is the index
    grp,        \* consumer group of the main stream: [exists, last]
    pel,        \* pending list of the group: id -> [owner, since]
    zsets,      \* sorted sets: key -> set of [member, score]
    dlq,        \* the "<stream>:dlq" stream
    kv,         \* plain keys (idempotency): key -> value
    running,    \* worker -> its running flag
    inFlight,   \* worker -> its inFlight counter
    pc,         \* task -> the client call (or timer) it is awaiting
    batch,      \* task -> messages of the current read/claim not yet processed
    cur,        \* task -> locals of its processMessage call
    scall,      \* start() calls of the workers
    stp,        \* stop() calls of the workers: call -> [pc, drain, deadline, acted]
    dmn,        \* retry daemons: daemon -> [pc, running, loop, tnow, i, ready, items]
    swp,        \* the standalone pending sweeper: [pc, running, loop, stopping, ids]
    snd,        \* producer send() calls
    fails,      \* client-call failures the environment may still inject
    obs,        \* history of the run, as far as cfg.track asks for it
    pol         \* retry policy under test: [opts, attempt, err, res]

serverVars == <<xs, grp, pel, zsets, dlq, kv>>
workerVars == <<running, inFlight, pc, batch, cur, scall, stp>>
vars == <<cfg, now, xs, grp, pel, zsets, dlq, kv, running, inFlight, pc,
          batch, cur, scall, stp, dmn, swp, snd, fails, obs, pol>>

(***************************************************************************)
(* Bounds                                                                  *)
(***************************************************************************)
MaxAttemptsCfg == 4     \* largest maxAttempts a policy is configured with
MaxAttemptHdr == 4      \* largest headers.attempt fed to the policy
MaxBaseMs == 2          \* largest baseMs / delayMs of a strategy
MaxDelayCfg == 3        \* largest maxDelayMs of a strategy
MaxMsgs == 2            \* payloads the producer sends
MaxChain == 1           \* attempts up to which a handler asks for a retry itself
MaxStream == 4          \* entries the main stream may hold
MaxTime == 3            \* the clock stops here
MaxExpire == 1          \* key expiries in a run
MaxCrash == 1           \* process crashes in a run
MaxFail == 1            \* client calls the environment lets fail in a run
MaxTimeout == 1      \* timeoutMs of stop(), in clock units
MaxSends == 3           \* send() calls of the idempotent producer

ConflictDelay == 1      \* Date.now() + 500, in clock ticks of 500 ms

Min(a, b) == IF a < b THEN a ELSE b

RECURSIVE Pow2(_)
Pow2(n) == IF n <= 0 THEN 1 ELSE 2 * Pow2(n - 1)

(***************************************************************************)
(* Retry policy (backoffPolicy)                                            *)
(***************************************************************************)
Errors == {"transient", "fatal"}

NoReason == [kind |-> "none", n |-> 0]
NonRetryable == [kind |-> "non-retryable", n |-> 0]
MaxAttemptsReason(n) == [kind |-> "maxAttempts", n |-> n]

AckResult == [action |-> "ack", delayMs |-> 0, reason |-> NoReason]
RetryResult(d) == [action |-> "retry", delayMs |-> d, reason |-> NoReason]
DlqResult(r) == [action |-> "dlq", delayMs |-> 0, reason |-> r]

\* opts.isRetryable ?? (() => true); the configured predicate of the README
\* is (err) => !err.fatal
IsRetryable(opts, err) ==
    IF opts.isRetryable = "default" THEN TRUE ELSE err # "fatal"

JitterDelaysUncapped(strategy, attempt) ==
    0 .. strategy.baseMs * Pow2(attempt)

\* Math.floor(Math.random() * (exp + 1)): any integer of 0..exp
JitterDelays(strategy, attempt) ==
    0 .. Min(strategy.maxDelayMs, strategy.baseMs * Pow2(attempt))

BackoffNextMaxFirst(opts, headers, err) ==
    IF headers.attempt + 1 >= opts.maxAttempts
    THEN {DlqResult(MaxAttemptsReason(opts.maxAttempts))}
    ELSE IF ~IsRetryable(opts, err) THEN {DlqResult(NonRetryable)}
    ELSE IF opts.strategy.kind = "constant"
         THEN {RetryResult(opts.strategy.delayMs)}
    ELSE {RetryResult(d) : d \in JitterDelays(opts.strategy, headers.attempt)}

BackoffNextOffByOne(opts, headers, err) ==
    IF ~IsRetryable(opts, err) THEN {DlqResult(NonRetryable)}
    ELSE IF headers.attempt + 1 > opts.maxAttempts
         THEN {DlqResult(MaxAttemptsReason(opts.maxAttempts))}
    ELSE IF opts.strategy.kind = "constant"
         THEN {RetryResult(opts.strategy.delayMs)}
    ELSE {RetryResult(d) : d \in JitterDelays(opts.strategy, headers.attempt)}

\* backoffPolicy(opts).next(headers, err): the set of results it can return
BackoffNext(opts, headers, err) ==
    IF ~IsRetryable(opts, err) THEN {DlqResult(NonRetryable)}
    ELSE IF headers.attempt + 1 >= opts.maxAttempts
         THEN {DlqResult(MaxAttemptsReason(opts.maxAttempts))}
    ELSE IF opts.strategy.kind = "constant"
         THEN {RetryResult(opts.strategy.delayMs)}
    ELSE {RetryResult(d) : d \in JitterDelays(opts.strategy, headers.attempt)}

Strategies ==
    {[kind |-> "constant", delayMs |-> d, baseMs |-> 0, maxDelayMs |-> 0] :
        d \in 0..MaxBaseMs}
    \cup
    {[kind |-> "exponential-jitter", delayMs |-> 0, baseMs |-> b, maxDelayMs |-> m] :
        b \in 1..MaxBaseMs, m \in 1..MaxDelayCfg}

PolicyOpts ==
    [maxAttempts : 1..MaxAttemptsCfg, strategy : Strategies,
     isRetryable : {"default", "notFatal"}]

NoResult == [action |-> "none", delayMs |-> 0, reason |-> NoReason]

(***************************************************************************)
(* Names, envelopes and the JSON codec                                     *)
(***************************************************************************)
MainStream == "S"
DefaultRetryKey == "S:retry"        \* `${stream}:retry`
CustomRetryKey == "R"               \* a caller-provided scheduling.retryZset
ZKeys == {DefaultRetryKey, CustomRetryKey}
Group == "g"

Workers == {"c1", "c2"}
Tasks == Workers \X {"read", "read2", "claim", "claim2"}
Owner(t) == t[1]
IsReadTask(t) == t[2] \in {"read", "read2"}

NoKey == ""                         \* headers.key undefined
MsgKeys == {"k"}

\* JSON.stringify / JSON.parse: a string is a tagged value, parsing reads it back
JSONstringify(v) == <<"json", v>>
JSONparse(s) == s[2]

Headers(type, attempt, key) == [type |-> type, attempt |-> attempt, key |-> key]
NoHeaders == Headers("", 0, NoKey)

\* jsonCodec.encode
Encode(env) ==
    [headers |-> JSONstringify(env.headers), payload |-> JSONstringify(env.payload)]

\* JSON.parse(undefined) throws: a field map without both fields does not decode
Decodable(fields) == {"headers", "payload"} \subseteq DOMAIN fields

\* jsonCodec.decode
Decode(fields) ==
    [headers |-> JSONparse(fields.headers), payload |-> JSONparse(fields.payload)]

MalformedFields == [junk |-> "x"]   \* an entry some other writer appended
NoFields == [none |-> "x"]

\* retry sorted-set members, JSON.stringify({stream, fields}) of the current
\* consumer and JSON.stringify({stream, env}) of src/consumer.ts
MemberOfFields(stream, fields) == [stream |-> stream, fields |-> fields]
MemberOfEnv(stream, env) == [stream |-> stream, env |-> env]

\* attempt carried by what a member would re-append
MemberAttempt(m) ==
    IF "fields" \in DOMAIN m THEN Decode(m.fields).headers.attempt
    ELSE m.env.headers.attempt

MemberPayload(m) ==
    IF "fields" \in DOMAIN m THEN Decode(m.fields).payload ELSE m.env.payload

(***************************************************************************)
(* Server operations (stream, group, pending list, sorted set, keys)       *)
(***************************************************************************)
Drop(f, S) == [x \in DOMAIN f \ S |-> f[x]]

\* XREADGROUP ... COUNT count STREAMS s >: ids the group has not delivered yet
NewIds(count) == (grp.last + 1) .. Min(Len(xs), grp.last + count)

RECURSIVE IdsToMsgs(_, _)
IdsToMsgs(lo, hi) ==
    IF lo > hi THEN <<>>
    ELSE <<[id |-> lo, fields |-> xs[lo]]>> \o IdsToMsgs(lo + 1, hi)

Deliver(p, ids, consumer) ==
    [i \in DOMAIN p \cup ids |->
        IF i \in ids THEN [owner |-> consumer, since |-> now] ELSE p[i]]

\* ZADD key score member: a member is stored once, its score is replaced
ZAdd(z, member, score) ==
    {e \in z : e.member # member} \cup {[member |-> member, score |-> score]}

\* ZPOPMIN candidates: the entries of least score
ZMin(z) == {e \in z : \A f \in z : e.score <= f.score}

IdlePendingNever(idle) == {}

\* XPENDING s g IDLE idle - + count: ids pending for at least idle
IdlePending(idle) == {i \in DOMAIN pel : now - pel[i].since >= idle}

RECURSIVE LowestIds(_, _)
LowestIds(S, n) ==
    IF S = {} \/ n = 0 THEN {}
    ELSE LET m == CHOOSE x \in S : \A y \in S : x <= y
         IN {m} \cup LowestIds(S \ {m}, n - 1)

RECURSIVE SetToMsgs(_)
SetToMsgs(S) ==
    IF S = {} THEN <<>>
    ELSE LET m == CHOOSE x \in S : \A y \in S : x <= y
         IN <<[id |-> m, fields |-> xs[m]]>> \o SetToMsgs(S \ {m})

\* values of plain keys
PendingBy(consumer) == [tag |-> "PENDING", by |-> consumer, id |-> 0]
DoneValue == [tag |-> "DONE", by |-> "", id |-> 0]
IdValue(id) == [tag |-> "ID", by |-> "", id |-> id]
ConsumedKey(key) == <<"consumed", MainStream, key>>
NoIdem == <<"none", "", "">>

(***************************************************************************)
(* Consumer worker: makeConsumer of src/stream/pendingSweeper.ts           *)
(* (cfg.variant = "current") and of src/consumer.ts (cfg.variant =         *)
(* "legacy").  A task is one run of loop() or claimLoop(); pc[t] names the *)
(* client call the task is awaiting, and an action is that call taking     *)
(* effect on the server followed by the task's code up to its next await.  *)
(***************************************************************************)
Payloads == 1..MaxMsgs

NoCur ==
    [id |-> 0, fields |-> NoFields, hdr |-> NoHeaders, payload |-> 0,
     key |-> NoIdem, reserved |-> FALSE, res |-> NoResult,
     acks |-> 0, succ |-> 0, dlqs |-> 0, at |-> 0, failed |-> "none"]

\* opts.idempotency?.pendingTtlSec && env.headers.key ? `consumed:...` : undefined
IdempotencyKey(hdr) ==
    IF cfg.variant = "current" /\ cfg.idem /\ hdr.key # NoKey
    THEN ConsumedKey(hdr.key) ELSE NoIdem

\* entry of processMessage(id, fields) up to its first await
Enter(msg) ==
    LET base == [NoCur EXCEPT !.id = msg.id, !.fields = msg.fields] IN
    IF ~Decodable(msg.fields)
    THEN [pc |-> IF cfg.variant = "current" THEN "threw" ELSE "catchXack",
          cur |-> base]
    ELSE LET env == Decode(msg.fields)
             key == IdempotencyKey(env.headers)
         IN [pc |-> IF key # NoIdem THEN "setNx" ELSE "handler",
             cur |-> [base EXCEPT !.hdr = env.headers,
                                  !.payload = env.payload, !.key = key]]

\* the catch block of processMessage
CatchPcNoDel(c) == "catchXack"

CatchPc(c) ==
    IF cfg.variant = "current" /\ c.reserved /\ c.key # NoIdem
    THEN "catchDel" ELSE "catchXack"

\* opts.scheduling?.retryZset || `${stream}:retry`
RetryKey == IF cfg.retryZset # "" THEN cfg.retryZset ELSE DefaultRetryKey

\* scheduling.mode === "zset" && client.zadd
RetryCallPc ==
    IF cfg.mode = "zset" /\ "zadd" \in cfg.caps THEN "zaddRetry" ELSE "xaddRetry"

NextAttemptSame(attempt) == attempt

\* attempt: env.headers.attempt + 1
NextAttempt(attempt) == attempt + 1

NextEnv(c) ==
    [headers |-> [c.hdr EXCEPT !.attempt = NextAttempt(c.hdr.attempt)],
     payload |-> c.payload]

\* the member the retry branch adds to the sorted set
RetryMember(c) ==
    IF cfg.variant = "current"
    THEN MemberOfFields(MainStream, Encode(NextEnv(c)))
    ELSE MemberOfEnv(MainStream, NextEnv(c))

DlqEntryUnsigned(c, consumer) ==
    [headers |-> JSONstringify(c.hdr),
     payload |-> JSONstringify(c.payload),
     error |-> JSONstringify([reason |-> c.res.reason, meta |-> "undefined"]),
     handledBy |-> JSONstringify([group |-> "", consumer |-> ""])]

\* fields of the entry appended to `${stream}:dlq`
DlqEntry(c, consumer) ==
    [headers |-> JSONstringify(c.hdr),
     payload |-> JSONstringify(c.payload),
     error |-> JSONstringify([reason |-> c.res.reason, meta |-> "undefined"]),
     handledBy |-> JSONstringify([group |-> Group, consumer |-> consumer])]

\* what the handler may answer: the results it returns, and for a rejection
\* the result of retryPolicy.next(env.headers, e); no result is an ack
HandlerResults(c) ==
    LET rejected == UNION {BackoffNext(cfg.policy, c.hdr, e) : e \in Errors}
        rejectedTransient == BackoffNext(cfg.policy, c.hdr, "transient")
    IN CASE cfg.handler = "ack" -> {AckResult}
         [] cfg.handler = "reject" -> rejectedTransient
         [] cfg.handler = "rejectK" ->
                IF obs.handled[c.payload] < cfg.k THEN rejectedTransient
                ELSE {AckResult}
         [] OTHER ->
                {AckResult, DlqResult(NoReason)} \cup rejected
                \cup (IF c.hdr.attempt < MaxChain THEN {RetryResult(0)} ELSE {})

Srv == [xs |-> xs, pel |-> pel, zsets |-> zsets, dlq |-> dlq, kv |-> kv]

Outcomes == IF fails > 0 THEN {TRUE, FALSE} ELSE {TRUE}

\* one awaited client call of task t: when it succeeds the server becomes srv
\* and the task goes on to okpc with locals c; when it rejects nothing changes
\* on the server and the task goes to failpc
\* the score of a scheduled member is Date.now() + delay, read when the zadd is
\* issued; the sorted set changes when the server executes it
IssuedAt(c, nextpc) ==
    IF nextpc \in {"zaddRetry", "zaddConflict"} THEN [c EXCEPT !.at = now] ELSE c

Step(t, ok, okpc, failpc, c, srv, o) ==
    /\ fails' = IF ok THEN fails ELSE fails - 1
    /\ pc' = [pc EXCEPT ![t] = IF ok THEN okpc ELSE failpc]
    /\ cur' = [cur EXCEPT ![t] = IF ok THEN IssuedAt(c, okpc)
                                 ELSE IF @.failed = "none" THEN [@ EXCEPT !.failed = pc[t]]
                                 ELSE @]
    /\ xs' = IF ok THEN srv.xs ELSE xs
    /\ pel' = IF ok THEN srv.pel ELSE pel
    /\ zsets' = IF ok THEN srv.zsets ELSE zsets
    /\ dlq' = IF ok THEN srv.dlq ELSE dlq
    /\ kv' = IF ok THEN srv.kv ELSE kv
    /\ obs' = IF ok THEN o ELSE obs
    /\ UNCHANGED <<cfg, now, grp, running, inFlight, batch, scall, stp, dmn, swp, snd, pol>>

Acked(c) == [c EXCEPT !.acks = @ + 1]

\* client.setNx(idempotencyKey, `PENDING:${consumer}`, pendingTtlSec)
SetNx(t) ==
    /\ pc[t] = "setNx"
    /\ \E ok \in Outcomes :
         LET c == cur[t]
             free == c.key \notin DOMAIN kv
         IN Step(t, ok, IF free THEN "handler" ELSE "get", CatchPc(c),
                 [c EXCEPT !.reserved = free],
                 [Srv EXCEPT !.kv = IF free THEN kv @@ (c.key :> PendingBy(Owner(t)))
                                    ELSE kv],
                 obs)

\* client.get(idempotencyKey) after a failed reservation
Get(t) ==
    /\ pc[t] = "get"
    /\ \E ok \in Outcomes :
         LET c == cur[t]
             done == c.key \in DOMAIN kv /\ kv[c.key] = DoneValue
         IN Step(t, ok, IF done THEN "xackDone" ELSE "xackConflict", CatchPc(c),
                 c, Srv, obs)

\* value === 'DONE': xack and return
XackDone(t) ==
    /\ pc[t] = "xackDone"
    /\ \E ok \in Outcomes :
         LET c == cur[t]
         IN Step(t, ok, "returned", CatchPc(c), Acked(c),
                 [Srv EXCEPT !.pel = Drop(pel, {c.id})], obs)

\* another consumer holds the key: xack, then client.zadd?.(...)
XackConflict(t) ==
    /\ pc[t] = "xackConflict"
    /\ \E ok \in Outcomes :
         LET c == cur[t]
         IN Step(t, ok, IF "zadd" \in cfg.caps THEN "zaddConflict" ELSE "returned",
                 CatchPc(c), Acked(c),
                 [Srv EXCEPT !.pel = Drop(pel, {c.id})], obs)

\* zadd(`${stream}:retry`, [{score: Date.now() + 500, member: JSON.stringify({stream, fields})}])
ZaddConflict(t) ==
    /\ pc[t] = "zaddConflict"
    /\ \E ok \in Outcomes :
         LET c == cur[t]
             m == MemberOfFields(MainStream, c.fields)
         IN Step(t, ok, "returned", CatchPc(c), [c EXCEPT !.succ = @ + 1, !.at = 0],
                 [Srv EXCEPT !.zsets[DefaultRetryKey] =
                      ZAdd(@, m, c.at + ConflictDelay)],
                 [obs EXCEPT !.succs = @ \cup IF "succs" \notin cfg.track THEN {} ELSE
                      {[via |-> "conflict", orig |-> c.hdr.attempt,
                        next |-> MemberAttempt(m)]}])

\* the handler settles; a rejection goes through retryPolicy.next
Handler(t) ==
    /\ pc[t] = "handler"
    /\ \E res \in HandlerResults(cur[t]) :
         LET c == [cur[t] EXCEPT !.res = res]
             held == c.reserved /\ c.key # NoIdem
         IN Step(t, TRUE,
                 CASE res.action = "ack" -> "xackAck"
                   [] res.action = "retry" ->
                        IF held THEN "delRetry" ELSE RetryCallPc
                   [] OTHER -> IF held THEN "delDlq" ELSE "xaddDlq",
                 "threw", c, Srv,
                 [obs EXCEPT !.handled[c.payload] =
                      IF "handled" \in cfg.track THEN @ + 1 ELSE @,
                             !.hby = @ \cup IF "hby" \in cfg.track
                                            THEN {<<c.id, Owner(t)>>} ELSE {}])

XackAckForgotten(t) ==
    /\ pc[t] = "xackAck"
    /\ \E ok \in Outcomes :
         LET c == cur[t]
         IN Step(t, ok, IF c.key # NoIdem THEN "setDone" ELSE "returned",
                 CatchPc(c), c, Srv, obs)

\* res.action === "ack": xack
XackAck(t) ==
    /\ pc[t] = "xackAck"
    /\ \E ok \in Outcomes :
         LET c == cur[t]
         IN Step(t, ok, IF c.key # NoIdem THEN "setDone" ELSE "returned",
                 CatchPc(c), Acked(c),
                 [Srv EXCEPT !.pel = Drop(pel, {c.id})],
                 [obs EXCEPT !.ended = @ \cup
                      IF "ended" \in cfg.track THEN {c.payload} ELSE {}])

\* client.setNx(idempotencyKey, `DONE`, doneTtlSec)
SetDone(t) ==
    /\ pc[t] = "setDone"
    /\ \E ok \in Outcomes :
         LET c == cur[t]
         IN Step(t, ok, "returned", CatchPc(c), c,
                 [Srv EXCEPT !.kv = IF c.key \in DOMAIN kv THEN kv
                                    ELSE kv @@ (c.key :> DoneValue)],
                 obs)

\* retry branch, reservedByUs: client.del(idempotencyKey)
DelRetry(t) ==
    /\ pc[t] = "delRetry"
    /\ \E ok \in Outcomes :
         LET c == cur[t]
         IN Step(t, ok, RetryCallPc, CatchPc(c), c,
                 [Srv EXCEPT !.kv = Drop(kv, {c.key})], obs)

\* client.zadd(retryKey, [{score: Date.now() + delay, member}])
ZaddRetryNothing(t) ==
    /\ pc[t] = "zaddRetry"
    /\ \E ok \in Outcomes :
         Step(t, ok, "xackRetry", CatchPc(cur[t]),
              [cur[t] EXCEPT !.succ = @ + 1, !.at = 0], Srv, obs)

ZaddRetry(t) ==
    /\ pc[t] = "zaddRetry"
    /\ \E ok \in Outcomes :
         LET c == cur[t]
             m == RetryMember(c)
         IN Step(t, ok, "xackRetry", CatchPc(c), [c EXCEPT !.succ = @ + 1, !.at = 0],
                 [Srv EXCEPT !.zsets[RetryKey] = ZAdd(@, m, c.at + c.res.delayMs)],
                 [obs EXCEPT !.succs = @ \cup IF "succs" \notin cfg.track THEN {} ELSE
                      {[via |-> "retry", orig |-> c.hdr.attempt,
                        next |-> MemberAttempt(m)]}])

\* immediate requeue fallback: client.xadd(stream, codec.encode(nextEnv))
XaddRetry(t) ==
    /\ pc[t] = "xaddRetry"
    /\ Len(xs) < MaxStream
    /\ \E ok \in Outcomes :
         LET c == cur[t]
             f == Encode(NextEnv(c))
         IN Step(t, ok, "xackRetry", CatchPc(c), [c EXCEPT !.succ = @ + 1],
                 [Srv EXCEPT !.xs = Append(xs, f)],
                 [obs EXCEPT !.succs = @ \cup IF "succs" \notin cfg.track THEN {} ELSE
                      {[via |-> "retry", orig |-> c.hdr.attempt,
                        next |-> Decode(f).headers.attempt]}])

XackRetryForgotten(t) ==
    /\ pc[t] = "xackRetry"
    /\ \E ok \in Outcomes :
         Step(t, ok, "returned", CatchPc(cur[t]), cur[t], Srv, obs)

\* retry branch: xack of the original after the successor is written
XackRetry(t) ==
    /\ pc[t] = "xackRetry"
    /\ \E ok \in Outcomes :
         LET c == cur[t]
         IN Step(t, ok, "returned", CatchPc(c), Acked(c),
                 [Srv EXCEPT !.pel = Drop(pel, {c.id})], obs)

\* dlq branch, reservedByUs: client.del(idempotencyKey)
DelDlq(t) ==
    /\ pc[t] = "delDlq"
    /\ \E ok \in Outcomes :
         LET c == cur[t]
         IN Step(t, ok, "xaddDlq", CatchPc(c), c,
                 [Srv EXCEPT !.kv = Drop(kv, {c.key})], obs)

\* client.xadd(`${stream}:dlq`, {headers, payload, error, handledBy})
XaddDlq(t) ==
    /\ pc[t] = "xaddDlq"
    /\ \E ok \in Outcomes :
         LET c == cur[t]
         IN Step(t, ok, "xackDlq", CatchPc(c), [c EXCEPT !.dlqs = @ + 1],
                 [Srv EXCEPT !.dlq = Append(dlq, DlqEntry(c, Owner(t)))],
                 [obs EXCEPT !.ended = @ \cup
                      IF "ended" \in cfg.track THEN {c.payload} ELSE {}])

\* dlq branch: xack of the original
XackDlq(t) ==
    /\ pc[t] = "xackDlq"
    /\ \E ok \in Outcomes :
         LET c == cur[t]
         IN Step(t, ok, "returned", CatchPc(c), Acked(c),
                 [Srv EXCEPT !.pel = Drop(pel, {c.id})], obs)

\* catch (err): if (reservedByUs && idempotencyKey) client.del(idempotencyKey)
CatchDel(t) ==
    /\ pc[t] = "catchDel"
    /\ \E ok \in Outcomes :
         LET c == cur[t]
         IN Step(t, ok, "catchXack", "threw", c,
                 [Srv EXCEPT !.kv = Drop(kv, {c.key})], obs)

\* catch (err): client.xack(stream, group, [id])
CatchXack(t) ==
    /\ pc[t] = "catchXack"
    /\ \E ok \in Outcomes :
         LET c == cur[t]
         IN Step(t, ok, "returned", "threw", Acked(c),
                 [Srv EXCEPT !.pel = Drop(pel, {c.id})], obs)

\* while (running) of loop() and claimLoop(): the next call, or the end
LoopHead(t) ==
    IF ~running[Owner(t)] THEN "exited"
    ELSE IF IsReadTask(t) THEN "xreadgroup"
    ELSE IF cfg.pelClaim # "enabled" \/ ~({"xpending", "xclaim"} \subseteq cfg.caps)
         THEN "sleep"                       \* claimOnce returns at once
    ELSE "xpending"

\* after the last message of a read or claim
AfterBatch(t) == IF IsReadTask(t) THEN LoopHead(t) ELSE "sleep"

\* the catch of loop() (src/consumer.ts has none: the task ends) and of claimOnce()
AfterThrow(t) ==
    IF IsReadTask(t) /\ cfg.variant = "legacy" THEN "exited" ELSE "sleep"

\* hands msgs to processMessage one after the other: inFlight++ and the entry
\* of processMessage for the first of them
Begin(t, msgs, finished) ==
    LET w == Owner(t) IN
    IF msgs = <<>>
    THEN /\ pc' = [pc EXCEPT ![t] = AfterBatch(t)]
         /\ cur' = [cur EXCEPT ![t] = NoCur]
         /\ batch' = [batch EXCEPT ![t] = <<>>]
         /\ inFlight' = [inFlight EXCEPT ![w] = @ - finished]
    ELSE LET e == Enter(Head(msgs)) IN
         /\ pc' = [pc EXCEPT ![t] = e.pc]
         /\ cur' = [cur EXCEPT ![t] = e.cur]
         /\ batch' = [batch EXCEPT ![t] = Tail(msgs)]
         /\ inFlight' = [inFlight EXCEPT ![w] = @ - finished + 1]

\* client.xreadgroup({group, consumer, blockMs, count, streams: [{key, id: ">"}]})
XReadGroup(t) ==
    /\ pc[t] = "xreadgroup"
    /\ \E ok \in Outcomes :
         /\ fails' = IF ok THEN fails ELSE fails - 1
         /\ IF ~ok
            THEN /\ pc' = [pc EXCEPT ![t] = AfterThrow(t)]
                 /\ UNCHANGED <<grp, pel, cur, batch, inFlight>>
            ELSE LET ids == NewIds(cfg.batchCount) IN
                 IF ids = {}
                 THEN \* the block times out: null, continue
                      /\ ~running[Owner(t)]
                      /\ pc' = [pc EXCEPT ![t] = "exited"]
                      /\ UNCHANGED <<grp, pel, cur, batch, inFlight>>
                 ELSE /\ grp' = [grp EXCEPT !.last = @ + Cardinality(ids)]
                      /\ pel' = Deliver(pel, ids, Owner(t))
                      /\ Begin(t, SetToMsgs(ids), 0)
    /\ UNCHANGED <<cfg, now, xs, zsets, dlq, kv, running, scall, stp, dmn, swp, snd, obs, pol>>

\* processMessage returned: inFlight--, then the next message or the loop head
LoopNext(t) ==
    /\ pc[t] = "returned"
    /\ Begin(t, batch[t], 1)
    /\ UNCHANGED <<cfg, now, xs, grp, pel, zsets, dlq, kv, running, scall, stp, dmn, swp,
                   snd, fails, obs, pol>>

\* processMessage threw: the rest of the batch and the inFlight-- are skipped
LoopCatch(t) ==
    /\ pc[t] = "threw"
    /\ pc' = [pc EXCEPT ![t] = AfterThrow(t)]
    /\ cur' = [cur EXCEPT ![t] = NoCur]
    /\ batch' = [batch EXCEPT ![t] = <<>>]
    /\ UNCHANGED <<cfg, now, xs, grp, pel, zsets, dlq, kv, running, inFlight,
                   scall, stp, dmn, swp, snd, fails, obs, pol>>

\* setTimeout(r, 250) of loop(), setTimeout(r, interval) of claimLoop()
Sleep(t) ==
    /\ pc[t] = "sleep"
    /\ LoopHead(t) # "sleep"
    /\ pc' = [pc EXCEPT ![t] = LoopHead(t)]
    /\ UNCHANGED <<cfg, now, xs, grp, pel, zsets, dlq, kv, running, inFlight,
                   batch, cur, scall, stp, dmn, swp, snd, fails, obs, pol>>

\* claimOnce: client.xpending(stream, group, {idle: minIdleMs, count, "-", "+"})
XPending(t) ==
    /\ pc[t] = "xpending"
    /\ \E ok \in Outcomes :
         LET ids == LowestIds(IdlePending(cfg.minIdle), cfg.maxPerTick) IN
         /\ fails' = IF ok THEN fails ELSE fails - 1
         /\ pc' = [pc EXCEPT ![t] = IF ok /\ ids # {} THEN "xclaim" ELSE "sleep"]
         /\ batch' = [batch EXCEPT ![t] = IF ok THEN SetToMsgs(ids) ELSE <<>>]
    /\ UNCHANGED <<cfg, now, xs, grp, pel, zsets, dlq, kv, running, inFlight,
                   cur, scall, stp, dmn, swp, snd, obs, pol>>

\* claimOnce: client.xclaim(stream, group, consumer, minIdleMs, ids, {retrycount: 1})
XClaim(t) ==
    /\ pc[t] = "xclaim"
    /\ \E ok \in Outcomes :
         LET asked == {batch[t][i].id : i \in DOMAIN batch[t]}
             ids == asked \cap IdlePending(cfg.minIdle)
         IN
         /\ fails' = IF ok THEN fails ELSE fails - 1
         /\ IF ok
            THEN /\ pel' = Deliver(pel, ids, Owner(t))
                 /\ Begin(t, SetToMsgs(ids), 0)
            ELSE /\ pc' = [pc EXCEPT ![t] = "sleep"]
                 /\ batch' = [batch EXCEPT ![t] = <<>>]
                 /\ UNCHANGED <<pel, cur, inFlight>>
    /\ UNCHANGED <<cfg, now, xs, grp, zsets, dlq, kv, running, scall, stp, dmn, swp, snd,
                   obs, pol>>

(***************************************************************************)
(* start() of the worker.  scall[c] is the position of call c: "idle" (not *)
(* made yet), the client call of ensureGroup it is awaiting, "resolved" or *)
(* "rejected".                                                             *)
(***************************************************************************)
\* claimLoop is spawned by start() if pelClaim?.enabled && xpending && xclaim
ClaimSpawned(c) ==
    c.pelClaim = "enabled" /\ {"xpending", "xclaim"} \subseteq c.caps

StartCalls == Workers \X {"s1", "s2"}

\* the task slot the next loop() of w runs in
FreeSlot(w, a, b) == IF pc[<<w, a>>] = "none" THEN <<w, a>> ELSE <<w, b>>

\* void loop(), and claimLoop() if it is to be spawned: each runs up to its
\* first await with the running flag r
Spawn(w, r) ==
    LET rt == FreeSlot(w, "read", "read2")
        ct == FreeSlot(w, "claim", "claim2")
    IN [t \in Tasks |->
          IF t = rt THEN (IF r THEN "xreadgroup" ELSE "exited")
          ELSE IF t = ct /\ cfg.variant = "current" /\ ClaimSpawned(cfg)
               THEN (IF r THEN "xpending" ELSE "exited")
          ELSE pc[t]]

\* ensureGroup() has returned: the rest of start()
StartResolves(c) ==
    LET w == c[1]
        r == IF cfg.variant = "current" THEN TRUE ELSE running[w]
    IN /\ running' = [running EXCEPT ![w] = r]
       /\ pc' = Spawn(w, r)
       /\ scall' = [scall EXCEPT ![c] = "resolved"]

\* start(): if (running) return; the legacy worker sets running = true before
\* it awaits ensureGroup(), the current one after
SStart(c) ==
    /\ scall[c] = "idle"
    /\ c[1] \in cfg.workers
    /\ IF running[c[1]]
       THEN /\ scall' = [scall EXCEPT ![c] = "resolved"]
            /\ UNCHANGED running
       ELSE /\ scall' = [scall EXCEPT ![c] = "xinfoGroups"]
            /\ running' = [running EXCEPT ![c[1]] = (cfg.variant = "legacy")]
    /\ UNCHANGED <<cfg, now, xs, grp, pel, zsets, dlq, kv, inFlight, pc, batch,
                   cur, stp, dmn, swp, snd, fails, obs, pol>>

\* ensureGroup: client.xinfoGroups(stream).catch(() => []); return if the group is listed
SXinfoGroups(c) ==
    /\ scall[c] = "xinfoGroups"
    /\ \E ok \in Outcomes :
         /\ fails' = IF ok THEN fails ELSE fails - 1
         /\ IF ok /\ grp.exists
            THEN StartResolves(c)
            ELSE /\ scall' = [scall EXCEPT ![c] = "xgroupCreate"]
                 /\ UNCHANGED <<running, pc>>
    /\ UNCHANGED <<cfg, now, xs, grp, pel, zsets, dlq, kv, inFlight, batch, cur,
                   stp, dmn, swp, snd, obs, pol>>

CreateRejectsBusy(ok) == ~ok \/ grp.exists

\* .catch of xgroupCreate: an error whose message includes BUSYGROUP (the group
\* exists) is swallowed, any other error is rethrown
CreateRejects(ok) == ~ok

\* ensureGroup: client.xgroupCreate(stream, group, "$", {mkStream: true}); the
\* server answers BUSYGROUP if the group exists, which is swallowed
SXgroupCreate(c) ==
    /\ scall[c] = "xgroupCreate"
    /\ \E ok \in Outcomes :
         /\ fails' = IF ok THEN fails ELSE fails - 1
         /\ obs' = [obs EXCEPT !.busy = IF ok /\ grp.exists /\ "busy" \in cfg.track
                                        THEN 1 ELSE @]
         /\ IF ~CreateRejects(ok)
            THEN /\ grp' = IF grp.exists THEN grp
                           ELSE [exists |-> TRUE, last |-> Len(xs)]
                 /\ StartResolves(c)
            ELSE /\ scall' = [scall EXCEPT ![c] = "rejected"]
                 /\ UNCHANGED <<grp, running, pc>>
    /\ UNCHANGED <<cfg, now, xs, pel, zsets, dlq, kv, inFlight, batch, cur,
                   stp, dmn, swp, snd, pol>>

StopCalls == Workers \X {"p1"}

StopIdle ==
    [pc |-> "idle", drain |-> FALSE, deadline |-> 0, acted |-> FALSE,
     waited |-> FALSE, task |-> <<>>]

\* the task claimLoopPromise refers to: the claim loop spawned last
LastClaim(w) ==
    IF pc[<<w, "claim2">>] # "none" THEN <<w, "claim2">> ELSE <<w, "claim">>

DrainingNever(w, deadline) == FALSE

\* while (inFlight > 0 && Date.now() < deadline)
Draining(w, deadline) == inFlight[w] > 0 /\ now < deadline

StopStep(c, sc, r) ==
    /\ stp' = [stp EXCEPT ![c] = sc]
    /\ running' = [running EXCEPT ![c[1]] = r]
    /\ UNCHANGED <<cfg, now, xs, grp, pel, zsets, dlq, kv, inFlight, pc, batch,
                   cur, scall, dmn, swp, snd, fails, obs, pol>>

\* stop({drain, timeoutMs}) up to its first await, or to its return
SStop(c, drain, timeout) ==
    LET w == c[1]
        sc == [stp[c] EXCEPT !.drain = drain]
    IN
    /\ stp[c].pc = "idle"
    /\ w \in cfg.workers
    /\ IF ~running[w]
       THEN StopStep(c, [sc EXCEPT !.pc = "resolved"], FALSE)
       ELSE IF ~drain
       THEN IF cfg.variant = "current" /\ pc[LastClaim(w)] # "none"
            THEN StopStep(c, [sc EXCEPT !.pc = "awaitClaim", !.acted = TRUE,
                                        !.task = LastClaim(w)], FALSE)
            ELSE StopStep(c, [sc EXCEPT !.pc = "resolved", !.acted = TRUE], FALSE)
       ELSE IF Draining(w, now + timeout)
       THEN StopStep(c, [sc EXCEPT !.pc = "drain", !.acted = TRUE, !.waited = TRUE,
                                   !.deadline = now + timeout], FALSE)
       ELSE StopStep(c, [sc EXCEPT !.pc = "resolved", !.acted = TRUE,
                                   !.deadline = now + timeout], FALSE)

\* stop({drain: false}): await claimLoopPromise; claimLoopPromise = null
SStopClaimExited(c) ==
    /\ stp[c].pc = "awaitClaim"
    /\ pc[stp[c].task] = "exited"
    /\ StopStep(c, [stp[c] EXCEPT !.pc = "resolved", !.task = <<>>], running[c[1]])

\* stop({drain: true}): the 25 ms poll that finds the while condition false
SStopDrained(c) ==
    /\ stp[c].pc = "drain"
    /\ ~Draining(c[1], stp[c].deadline)
    /\ StopStep(c, [stp[c] EXCEPT !.pc = "resolved"], running[c[1]])

(***************************************************************************)
(* Retry daemon: startRetryDaemon                                          *)
(***************************************************************************)
Daemons == {"d1", "d2"}

DaemonOff ==
    [pc |-> "off", running |-> FALSE, loop |-> FALSE, stopping |-> FALSE,
     tnow |-> 0, i |-> 0, ready |-> <<>>, items |-> <<>>]

RECURSIVE RemoveOne(_, _)
RemoveOne(seq, x) ==
    IF seq = <<>> THEN <<>>
    ELSE IF Head(seq) = x THEN Tail(seq)
    ELSE <<Head(seq)>> \o RemoveOne(Tail(seq), x)

InSeq(seq, x) == \E i \in DOMAIN seq : seq[i] = x

\* entries of z in ascending score order
RECURSIVE ByScore(_)
ByScore(z) ==
    IF z = {} THEN <<>>
    ELSE LET e == CHOOSE x \in ZMin(z) : TRUE
         IN <<e>> \o ByScore(z \ {e})

Take(seq, n) == SubSeq(seq, 1, Min(n, Len(seq)))

\* tickOnce up to its first await: now = Date.now(), ready = [], strategy choice
TickBegin(dd) ==
    [dd EXCEPT !.tnow = now, !.i = 0, !.ready = <<>>, !.items = <<>>,
               !.pc = IF "zpopmin" \in cfg.caps
                      THEN (IF cfg.maxBatch > 0 THEN "zpopmin" ELSE "sleep")
                      ELSE IF {"zrangebyscore", "zrem"} \subseteq cfg.caps
                           THEN "zrange" ELSE "sleep"]

\* the for loop over ready, or the end of the tick
ForwardPc(ready) == IF ready = <<>> THEN "sleep" ELSE "xadd"

\* collection is over: now, i and items are not read again in this tick
Collected(dd, ready) ==
    [dd EXCEPT !.tnow = 0, !.i = 0, !.items = <<>>, !.ready = ready,
               !.pc = ForwardPc(ready)]

ReadyAfterReinsertKept(ready, first) == Append(ready, first)

\* first.score > now: reinsert and break, first is not pushed to ready
ReadyAfterReinsert(ready, first) == ready

\* a rejected sorted-set call leaves tickOnce and loop(): finally running = false;
\* loopPromise stays set and rejected, so start() returns at once from then on
DaemonThrown(dd) == [dd EXCEPT !.pc = "failed", !.running = FALSE]

DStep(d, dd, z, o) ==
    /\ dmn' = [dmn EXCEPT ![d] = dd]
    /\ zsets' = [zsets EXCEPT ![cfg.dzset] = z]
    /\ obs' = o
    /\ UNCHANGED <<cfg, now, grp, pel, dlq, kv, running, inFlight, pc, batch,
                   cur, scall, stp, snd, pol, swp>>

\* start(): if (loopPromise) return; loopPromise = loop()
DStart(d) ==
    /\ ~dmn[d].loop
    /\ dmn[d].pc \in {"off", "exited"}
    /\ DStep(d, TickBegin([dmn[d] EXCEPT !.loop = TRUE, !.running = TRUE]),
             zsets[cfg.dzset], obs)
    /\ UNCHANGED <<xs, fails>>

\* client.zpopmin(retryZset)
DZpopmin(d) ==
    /\ dmn[d].pc = "zpopmin"
    /\ \E ok \in Outcomes :
         LET dd == dmn[d]
             z == zsets[cfg.dzset]
         IN
         /\ fails' = IF ok THEN fails ELSE fails - 1
         /\ IF ~ok THEN DStep(d, DaemonThrown(dd), z, obs)
            ELSE IF z = {}
            THEN DStep(d, Collected(dd, dd.ready), z, obs)
            ELSE \E e \in ZMin(z) :
                   LET o == [obs EXCEPT !.own[d] = Append(@, e.member)] IN
                   IF e.score > dd.tnow
                   THEN DStep(d, IF "zadd" \in cfg.caps
                                 THEN [dd EXCEPT !.pc = "reinsert", !.items = <<e>>]
                                 ELSE Collected(dd, dd.ready),
                              z \ {e}, o)
                   ELSE DStep(d, IF dd.i + 1 < cfg.maxBatch
                                 THEN [dd EXCEPT !.ready = Append(@, e), !.i = @ + 1]
                                 ELSE Collected(dd, Append(dd.ready, e)),
                              z \ {e}, o)
    /\ UNCHANGED xs

\* client.zadd?.(retryZset, [first]); break
DReinsert(d) ==
    /\ dmn[d].pc = "reinsert"
    /\ \E ok \in Outcomes :
         LET dd == dmn[d]
             e == dd.items[1]
             r == ReadyAfterReinsert(dd.ready, e)
         IN
         /\ fails' = IF ok THEN fails ELSE fails - 1
         /\ IF ~ok THEN DStep(d, DaemonThrown(dd), zsets[cfg.dzset], obs)
            ELSE DStep(d, Collected(dd, r),
                       ZAdd(zsets[cfg.dzset], e.member, e.score),
                       [obs EXCEPT !.own[d] = RemoveOne(@, e.member)])
    /\ UNCHANGED xs

\* client.zrangebyscore(retryZset, -Infinity, now, {limit: maxBatch})
DZrange(d) ==
    /\ dmn[d].pc = "zrange"
    /\ \E ok \in Outcomes :
         LET dd == dmn[d]
             z == zsets[cfg.dzset]
             items == Take(ByScore({e \in z : e.score <= dd.tnow}), cfg.maxBatch)
         IN
         /\ fails' = IF ok THEN fails ELSE fails - 1
         /\ IF ~ok THEN DStep(d, DaemonThrown(dd), z, obs)
            ELSE DStep(d, IF items = <<>> THEN Collected(dd, <<>>)
                          ELSE [dd EXCEPT !.items = items, !.pc = "zrem"],
                       z, obs)
    /\ UNCHANGED xs

\* removed = client.zrem(retryZset, members); ready.push(...items.slice(0, removed))
DZrem(d) ==
    /\ dmn[d].pc = "zrem"
    /\ \E ok \in Outcomes :
         LET dd == dmn[d]
             z == zsets[cfg.dzset]
             members == {dd.items[i].member : i \in DOMAIN dd.items}
             gone == {e \in z : e.member \in members}
             removed == Cardinality(gone)
             r == IF removed > 0 THEN Take(dd.items, removed) ELSE <<>>
             goneSeq == ByScore(gone)
         IN
         /\ fails' = IF ok THEN fails ELSE fails - 1
         /\ IF ~ok THEN DStep(d, DaemonThrown(dd), z, obs)
            ELSE DStep(d, Collected(dd, r),
                       z \ gone,
                       [obs EXCEPT !.own[d] =
                            @ \o [i \in DOMAIN goneSeq |-> goneSeq[i].member]])
    /\ UNCHANGED xs

\* JSON.parse(member) succeeds and parsed.fields is a field map; xadd of an
\* undefined field map throws in the client before any command is sent
Forwardable(m) == "fields" \in DOMAIN m

DXaddThrows(d) ==
    /\ dmn[d].pc = "xadd"
    /\ \E ok \in Outcomes :
         LET dd == dmn[d]
             m == dd.ready[1].member
             rest == Tail(dd.ready)
             sent == ok /\ Forwardable(m)
             o1 == [obs EXCEPT !.own[d] = RemoveOne(@, m)]
         IN
         /\ sent => Len(xs) < MaxStream
         /\ fails' = IF ok THEN fails ELSE fails - 1
         /\ xs' = IF sent THEN Append(xs, m.fields) ELSE xs
         /\ DStep(d, IF sent THEN [dd EXCEPT !.ready = rest, !.pc = ForwardPc(rest)]
                     ELSE DaemonThrown([dd EXCEPT !.ready = rest]),
                  zsets[cfg.dzset],
                  IF sent THEN [o1 EXCEPT !.nfwd = @ + 1]
                  ELSE [o1 EXCEPT !.dropped = @ \cup {m}])

\* for (const {member} of ready): parse, client.xadd(dest, parsed.fields);
\* a parse or append error is logged and the member dropped
DXadd(d) ==
    /\ dmn[d].pc = "xadd"
    /\ \E ok \in (IF Forwardable(dmn[d].ready[1].member) THEN Outcomes ELSE {TRUE}) :
         LET dd == dmn[d]
             m == dd.ready[1].member
             rest == Tail(dd.ready)
             sent == ok /\ Forwardable(m)
             o1 == [obs EXCEPT !.own[d] = RemoveOne(@, m)]
             track == "fwd" \in cfg.track
         IN
         /\ sent => Len(xs) < MaxStream
         /\ fails' = IF ok THEN fails ELSE fails - 1
         /\ xs' = IF sent THEN Append(xs, m.fields) ELSE xs
         /\ DStep(d, [dd EXCEPT !.ready = rest, !.pc = ForwardPc(rest)],
                  zsets[cfg.dzset],
                  IF ~track THEN o1
                  ELSE IF sent
                  THEN [o1 EXCEPT !.nfwd = @ + 1,
                                  !.unowned = @ \cup
                                      (IF InSeq(obs.own[d], m) THEN {} ELSE {m})]
                  ELSE [o1 EXCEPT !.dropped = @ \cup {m}])

\* setTimeout(r, Math.max(25, tickMs * jitter)), then while (running)
DSleep(d) ==
    /\ dmn[d].pc = "sleep"
    /\ DStep(d, IF dmn[d].running THEN TickBegin(dmn[d])
                ELSE [dmn[d] EXCEPT !.pc = "exited"],
             zsets[cfg.dzset], obs)
    /\ UNCHANGED <<xs, fails>>

DStopNoWait(d) ==
    /\ dmn[d].loop
    /\ ~dmn[d].stopping
    /\ DStep(d, [dmn[d] EXCEPT !.running = FALSE, !.loop = FALSE],
             zsets[cfg.dzset], obs)
    /\ UNCHANGED <<xs, fails>>

\* stop(): if (!loopPromise) return; running = false; await loopPromise
DStop(d) ==
    /\ dmn[d].loop
    /\ ~dmn[d].stopping
    /\ DStep(d, [dmn[d] EXCEPT !.running = FALSE, !.stopping = TRUE],
             zsets[cfg.dzset], obs)
    /\ UNCHANGED <<xs, fails>>

\* stop() after the loop has exited: loopPromise = null
DStopped(d) ==
    /\ dmn[d].stopping
    /\ dmn[d].pc = "exited"
    /\ dmn[d].ready = <<>>
    /\ DStep(d, [dmn[d] EXCEPT !.loop = FALSE, !.stopping = FALSE],
             zsets[cfg.dzset], obs)
    /\ UNCHANGED <<xs, fails>>

(***************************************************************************)
(* Standalone pending sweeper: startPendingSweeper                         *)
(***************************************************************************)
SweeperConsumer == "c1"        \* opts.consumer: who will claim

SweeperOff ==
    [pc |-> "off", running |-> FALSE, loop |-> FALSE, stopping |-> FALSE, ids |-> {}]

\* if (!client.xpending || !client.xclaim) return {start() {}, stop() {}, ...}
SweeperEnabled == {"xpending", "xclaim"} \subseteq cfg.caps

\* isRunning(): !!loopPromise && running, or () => false when disabled
SweeperIsRunning == SweeperEnabled /\ swp.loop /\ swp.running

SwStep(s, p) ==
    /\ swp' = s
    /\ pel' = p
    /\ UNCHANGED <<cfg, now, xs, grp, zsets, dlq, kv, running, inFlight, pc, batch,
                   cur, scall, stp, dmn, snd, obs, pol>>

\* start(): if (loopPromise) return; loopPromise = loop(), up to the first await
SwStart ==
    /\ swp.pc \in {"off", "exited"}
    /\ ~swp.loop
    /\ SwStep(IF SweeperEnabled
              THEN [swp EXCEPT !.loop = TRUE, !.running = TRUE, !.pc = "xpending"]
              ELSE swp,
              pel)
    /\ UNCHANGED fails

\* tickOnce: client.xpending(stream, group, {idle: minIdleMs, count: maxPerTick})
SwXpending ==
    /\ swp.pc = "xpending"
    /\ \E ok \in Outcomes :
         LET ids == IF ok THEN LowestIds(IdlePending(cfg.minIdle), cfg.maxPerTick)
                    ELSE {}
         IN /\ fails' = IF ok THEN fails ELSE fails - 1
            /\ SwStep([swp EXCEPT !.ids = ids,
                                  !.pc = IF ids # {} THEN "xclaim" ELSE "sleep"],
                      pel)

SwXclaimAcks ==
    /\ swp.pc = "xclaim"
    /\ \E ok \in Outcomes :
         /\ fails' = IF ok THEN fails ELSE fails - 1
         /\ SwStep([swp EXCEPT !.ids = {}, !.pc = "sleep"],
                   IF ok THEN Drop(pel, swp.ids) ELSE pel)

\* tickOnce: client.xclaim(stream, group, consumer, minIdleMs, ids, {retrycount: 1});
\* the claimed entries are only counted in a debug log
SwXclaim ==
    /\ swp.pc = "xclaim"
    /\ \E ok \in Outcomes :
         LET ids == swp.ids \cap IdlePending(cfg.minIdle) IN
         /\ fails' = IF ok THEN fails ELSE fails - 1
         /\ SwStep([swp EXCEPT !.ids = {}, !.pc = "sleep"],
                   IF ok THEN Deliver(pel, ids, SweeperConsumer) ELSE pel)

\* setTimeout(r, tickMs), then while (running); finally running = false
SwSleep ==
    /\ swp.pc = "sleep"
    /\ SwStep(IF swp.running THEN [swp EXCEPT !.pc = "xpending"]
              ELSE [swp EXCEPT !.pc = "exited"],
              pel)
    /\ UNCHANGED fails

\* stop(): if (!loopPromise) return; running = false; await loopPromise
SwStop ==
    /\ swp.loop
    /\ ~swp.stopping
    /\ SwStep([swp EXCEPT !.running = FALSE, !.stopping = TRUE], pel)
    /\ UNCHANGED fails

\* stop() after the loop has exited: loopPromise = null
SwStopped ==
    /\ swp.stopping
    /\ swp.pc = "exited"
    /\ SwStep([swp EXCEPT !.loop = FALSE, !.stopping = FALSE], pel)
    /\ UNCHANGED fails

(***************************************************************************)
(* Environment: the producer, the clock, key expiry, process crashes       *)
(***************************************************************************)
\* makeProducer.send without idempotency: client.xadd(stream, codec.encode(env))
Send(p) ==
    /\ p \notin obs.sent
    /\ p <= cfg.msgs
    /\ \A q \in Payloads : q < p => q \in obs.sent  \* payloads are sent in order
    /\ Len(xs) < MaxStream
    /\ \E key \in cfg.msgKeys :
         xs' = Append(xs, Encode([headers |-> Headers(cfg.type, 0, key),
                                  payload |-> p]))
    /\ obs' = [obs EXCEPT !.sent = @ \cup {p}]
    /\ UNCHANGED <<cfg, now, grp, pel, zsets, dlq, kv, running, inFlight, pc,
                   batch, cur, scall, stp, dmn, swp, snd, fails, pol>>

\* send() calls of a producer made with idempotency; snd[c] is the position
\* of call c, the key it was given and what it returned
SendCalls == 1..MaxSends
SendKeys == {"k", "j"}

NoReturn == [tag |-> "none", by |-> "", id |-> 0]
SentinelId == IdValue(0)            \* "0-0"
CacheSet == [tag |-> "SET", by |-> "", id |-> 0]
IdleSend == [pc |-> "idle", key |-> NoKey, ret |-> NoReturn]

\* `idempotency:${stream}:${headers.type}:${headers.key}` of the script
\* producer, `idemp:${stream}:${headers.key}` of src/producer.ts
ProducerKey(key) ==
    IF cfg.variant = "current" THEN <<"idempotency", MainStream, cfg.type, key>>
    ELSE <<"idemp", MainStream, key>>

SentFields(c, key) == Encode([headers |-> Headers(cfg.type, 0, key), payload |-> c])

ScriptReservedAlways(ik) == TRUE

\* SET KEYS[1] 'PENDING' NX EX ttl
ScriptReserved(ik) == ik \notin DOMAIN kv

PStep(c, s, x, k) ==
    /\ snd' = [snd EXCEPT ![c] = s]
    /\ xs' = x
    /\ kv' = k
    /\ UNCHANGED <<cfg, now, grp, pel, zsets, dlq, running, inFlight, pc, batch,
                   cur, scall, stp, dmn, swp, obs, pol>>

\* send with a key: client.invokeScript(idempotencyScript, ...), which runs
\* atomically on the server: reserve, append and store the id, or read the value
PInvokeScript(c) ==
    /\ cfg.variant = "current"
    /\ snd[c].pc = "idle"
    /\ \E key \in SendKeys : \E ok \in Outcomes :
         LET ik == ProducerKey(key)
             id == Len(xs) + 1
         IN
         /\ fails' = IF ok THEN fails ELSE fails - 1
         /\ IF ~ok THEN PStep(c, [pc |-> "failed", key |-> key, ret |-> NoReturn], xs, kv)
            ELSE IF ScriptReserved(ik)
            THEN /\ Len(xs) < MaxStream
                 /\ PStep(c, [pc |-> "done", key |-> key, ret |-> IdValue(id)],
                          Append(xs, SentFields(c, key)),
                          [x \in DOMAIN kv \cup {ik} |-> IF x = ik THEN IdValue(id) ELSE kv[x]])
            ELSE PStep(c, [pc |-> "done", key |-> key, ret |-> kv[ik]], xs, kv)

\* src/producer.ts: cache.setIfNotExists(key, ttlSec); a duplicate returns "0-0"
PSetIfNotExists(c) ==
    /\ cfg.variant = "legacy"
    /\ snd[c].pc = "idle"
    /\ \E key \in SendKeys : \E ok \in Outcomes :
         LET ik == ProducerKey(key) IN
         /\ fails' = IF ok THEN fails ELSE fails - 1
         /\ IF ~ok THEN PStep(c, [pc |-> "failed", key |-> key, ret |-> NoReturn], xs, kv)
            ELSE IF ik \notin DOMAIN kv
            THEN PStep(c, [pc |-> "xadd", key |-> key, ret |-> NoReturn], xs,
                       kv @@ (ik :> CacheSet))
            ELSE PStep(c, [pc |-> "done", key |-> key, ret |-> SentinelId], xs, kv)

\* src/producer.ts: return await client.xadd(stream, codec.encode(env))
PXadd(c) ==
    /\ snd[c].pc = "xadd"
    /\ Len(xs) < MaxStream
    /\ \E ok \in Outcomes :
         /\ fails' = IF ok THEN fails ELSE fails - 1
         /\ IF ok
            THEN PStep(c, [snd[c] EXCEPT !.pc = "done", !.ret = IdValue(Len(xs) + 1)],
                       Append(xs, SentFields(c, snd[c].key)), kv)
            ELSE PStep(c, [snd[c] EXCEPT !.pc = "failed"], xs, kv)

\* some other writer appends an entry the codec cannot decode
SendMalformed ==
    /\ Len(xs) < MaxStream
    /\ obs.malformed < 1
    /\ xs' = Append(xs, MalformedFields)
    /\ obs' = [obs EXCEPT !.malformed = @ + 1]
    /\ UNCHANGED <<cfg, now, grp, pel, zsets, dlq, kv, running, inFlight, pc,
                   batch, cur, scall, stp, dmn, swp, snd, fails, pol>>

\* a member that is not due yet, in a sorted set or popped and about to be
\* re-inserted, a pending entry that is not yet idle for minIdleMs, or a
\* draining stop() whose deadline has not passed
Waiting ==
    \/ \E k \in ZKeys : \E e \in zsets[k] : e.score > now
    \/ \E d \in Daemons : dmn[d].pc = "reinsert" /\ dmn[d].items[1].score > now
    \/ /\ cfg.pelClaim = "enabled"
       /\ \E i \in DOMAIN pel : now - pel[i].since < cfg.minIdle
    \/ \E c \in DOMAIN stp : stp[c].pc = "drain" /\ now < stp[c].deadline

\* Date.now() advances; with cfg.clock = "lazy" only while a member waits for it
Tick ==
    /\ now < MaxTime
    /\ cfg.clock = "lazy" => Waiting
    /\ now' = now + 1
    /\ UNCHANGED <<cfg, xs, grp, pel, zsets, dlq, kv, running, inFlight, pc,
                   batch, cur, scall, stp, dmn, swp, snd, fails, obs, pol>>

\* the TTL of a key runs out
Expire(key) ==
    /\ key \in DOMAIN kv
    /\ obs.expired < MaxExpire
    /\ kv' = Drop(kv, {key})
    /\ obs' = [obs EXCEPT !.expired = @ + 1]
    /\ UNCHANGED <<cfg, now, xs, grp, pel, zsets, dlq, running, inFlight, pc,
                   batch, cur, scall, stp, dmn, swp, snd, fails, pol>>

\* the TTL of the producer's idempotency key of k runs out
PExpire(k) == Expire(ProducerKey(k))

Alive(p) == p \notin {"none", "exited", "failed", "dead", "off"}

\* the process of worker w dies between two of its client calls: its tasks
\* end and what they held in memory is gone
CrashWorker(w) ==
    /\ obs.crashes < MaxCrash
    /\ \E t \in Tasks : Owner(t) = w /\ Alive(pc[t])
    /\ pc' = [t \in Tasks |-> IF Owner(t) = w /\ Alive(pc[t]) THEN "dead" ELSE pc[t]]
    /\ cur' = [t \in Tasks |-> IF Owner(t) = w THEN NoCur ELSE cur[t]]
    /\ batch' = [t \in Tasks |-> IF Owner(t) = w THEN <<>> ELSE batch[t]]
    /\ running' = [running EXCEPT ![w] = FALSE]
    /\ inFlight' = [inFlight EXCEPT ![w] = 0]
    /\ obs' = [obs EXCEPT !.crashes = @ + 1,
                          !.orphans = @ \cup IF "hby" \in cfg.track
                                             THEN {i \in DOMAIN pel : pel[i].owner = w}
                                             ELSE {}]
    /\ UNCHANGED <<cfg, now, xs, grp, pel, zsets, dlq, kv, scall, stp, dmn, swp, snd, fails, pol>>

\* the process of daemon d dies between two of its client calls: the members
\* it had taken out of the sorted set are gone with it
CrashDaemon(d) ==
    /\ obs.crashes < MaxCrash
    /\ Alive(dmn[d].pc)
    /\ dmn' = [dmn EXCEPT ![d] = [DaemonOff EXCEPT !.pc = "dead"]]
    /\ obs' = [obs EXCEPT !.crashes = @ + 1, !.own[d] = <<>>]
    /\ UNCHANGED <<cfg, now, xs, grp, pel, zsets, dlq, kv, running, inFlight, pc,
                   batch, cur, scall, stp, snd, fails, pol, swp>>

(***************************************************************************)
(* Initial states                                                          *)
(***************************************************************************)
EmptyMap == [x \in {} |-> x]

AllCaps == {"zadd", "zpopmin", "zrangebyscore", "zrem", "xpending", "xclaim"}

ConstantPolicy(n, d) ==
    [maxAttempts |-> n,
     strategy |-> [kind |-> "constant", delayMs |-> d, baseMs |-> 0, maxDelayMs |-> 0],
     isRetryable |-> "notFatal"]

\* the options of the README quick start, scaled to the model's clock
BaseCfg ==
    [variant |-> "current", idem |-> FALSE, policy |-> ConstantPolicy(2, 1),
     handler |-> "any", k |-> 0, mode |-> "zset", retryZset |-> "",
     caps |-> AllCaps, pelClaim |-> "absent", minIdle |-> 1, maxPerTick |-> 2,
     batchCount |-> 2, dzset |-> DefaultRetryKey, maxBatch |-> 2,
     msgKeys |-> {NoKey}, type |-> "msg", workers |-> {"c1"}, msgs |-> MaxMsgs,
     clock |-> "free", track |-> {}]

IdlePol ==
    [opts |-> ConstantPolicy(1, 0), attempt |-> 0, err |-> "transient",
     res |-> NoResult]

NoObs ==
    [handled |-> [p \in Payloads |-> 0], ended |-> {}, succs |-> {},
     own |-> [d \in Daemons |-> <<>>], nfwd |-> 0, unowned |-> {},
     dropped |-> {}, sent |-> {}, malformed |-> 0, expired |-> 0, crashes |-> 0,
     hby |-> {}, orphans |-> {}, busy |-> 0]

\* the workers of config c have been made and their start() has resolved on an
\* empty stream: the group exists, the loops await their first call
StartedInit(C, K, f) ==
    /\ cfg \in C
    /\ now = 0
    /\ xs = <<>>
    /\ grp = [exists |-> TRUE, last |-> 0]
    /\ pel = EmptyMap
    /\ zsets = [k \in ZKeys |-> {}]
    /\ dlq = <<>>
    /\ kv \in K
    /\ running = [w \in Workers |-> w \in cfg.workers]
    /\ inFlight = [w \in Workers |-> 0]
    /\ pc = [t \in Tasks |->
               IF Owner(t) \notin cfg.workers THEN "none"
               ELSE IF t[2] = "read" THEN "xreadgroup"
               ELSE IF t[2] = "claim" /\ ClaimSpawned(cfg) THEN "xpending"
               ELSE "none"]
    /\ batch = [t \in Tasks |-> <<>>]
    /\ cur = [t \in Tasks |-> NoCur]
    /\ scall = EmptyMap
    /\ stp = EmptyMap
    /\ dmn = [d \in Daemons |-> DaemonOff]
    /\ swp = SweeperOff
    /\ snd = EmptyMap
    /\ fails = f
    /\ obs = NoObs
    /\ pol = IdlePol

PolicyInit ==
    /\ pol \in [opts : PolicyOpts, attempt : 0..MaxAttemptHdr, err : Errors,
                res : {NoResult}]
    /\ cfg = BaseCfg
    /\ now = 0
    /\ xs = <<>>
    /\ grp = [exists |-> FALSE, last |-> 0]
    /\ pel = EmptyMap
    /\ zsets = [k \in ZKeys |-> {}]
    /\ dlq = <<>>
    /\ kv = EmptyMap
    /\ running = [w \in Workers |-> FALSE]
    /\ inFlight = [w \in Workers |-> 0]
    /\ pc = [t \in Tasks |-> "none"]
    /\ batch = [t \in Tasks |-> <<>>]
    /\ cur = [t \in Tasks |-> NoCur]
    /\ scall = EmptyMap
    /\ stp = EmptyMap
    /\ dmn = [d \in Daemons |-> DaemonOff]
    /\ swp = SweeperOff
    /\ snd = EmptyMap
    /\ fails = 0
    /\ obs = NoObs

\* one call of policy.next on the drawn inputs
PolicyNext ==
    /\ pol.res = NoResult
    /\ \E r \in BackoffNext(pol.opts, [attempt |-> pol.attempt], pol.err) :
           pol' = [pol EXCEPT !.res = r]
    /\ UNCHANGED <<cfg, now, xs, grp, pel, zsets, dlq, kv, running, inFlight, pc,
                   batch, cur, scall, stp, dmn, swp, snd, fails, obs>>

SpecPolicy == PolicyInit /\ [][PolicyNext]_vars

(***************************************************************************)
(* Specifications                                                          *)
(***************************************************************************)
ProcessMessage(t) ==
    \/ Handler(t) \/ XackAck(t)
    \/ ZaddRetry(t) \/ XaddRetry(t) \/ XackRetry(t)
    \/ XaddDlq(t) \/ XackDlq(t)
    \/ CatchXack(t)

ProcessMessageIdem(t) ==
    \/ SetNx(t) \/ Get(t) \/ XackDone(t) \/ XackConflict(t) \/ ZaddConflict(t)
    \/ SetDone(t) \/ DelRetry(t) \/ DelDlq(t) \/ CatchDel(t)

ReadLoop(t) == XReadGroup(t) \/ LoopNext(t) \/ LoopCatch(t) \/ Sleep(t)

DaemonPop(d) == DStart(d) \/ DZpopmin(d) \/ DReinsert(d) \/ DXadd(d) \/ DSleep(d)

\* one worker, keyed messages, client calls that may fail; the key of the
\* messages is free, reserved by another consumer of the group, or done
PMCfgs ==
    {[BaseCfg EXCEPT !.variant = v, !.idem = TRUE, !.mode = m,
                     !.msgKeys = {"k"}, !.policy = ConstantPolicy(3, 0),
                     !.track = {"succs"}] :
        v \in {"current", "legacy"}, m \in {"zset", "none"}}

KeyStates ==
    {EmptyMap, ConsumedKey("k") :> PendingBy("c2"), ConsumedKey("k") :> DoneValue}

PMInit == StartedInit(PMCfgs, KeyStates, MaxFail)

PMNext ==
    \/ \E p \in Payloads : Send(p)
    \/ SendMalformed
    \/ \E t \in Tasks : ReadLoop(t) \/ ProcessMessage(t) \/ ProcessMessageIdem(t)

SpecPM == PMInit /\ [][PMNext]_vars

JitterPolicy(n, b, m) ==
    [maxAttempts |-> n,
     strategy |-> [kind |-> "exponential-jitter", delayMs |-> 0, baseMs |-> b,
                   maxDelayMs |-> m],
     isRetryable |-> "notFatal"]

\* one worker whose handler always rejects, one retry daemon that is started
\* and stopped at will; the client offers pop-min, or only range and remove
DaemonCfgs ==
    {[BaseCfg EXCEPT !.handler = "reject", !.policy = JitterPolicy(2, 1, 1),
                     !.caps = caps, !.track = {"fwd"}] :
        caps \in {AllCaps, AllCaps \ {"zpopmin"}}}

DaemonInit == StartedInit(DaemonCfgs, {EmptyMap}, 0)

DaemonLoop(d) ==
    \/ DStart(d) \/ DZpopmin(d) \/ DReinsert(d) \/ DZrange(d) \/ DZrem(d)
    \/ DXadd(d) \/ DSleep(d) \/ DStop(d) \/ DStopped(d)

RetryPath(t) ==
    \/ Handler(t) \/ ZaddRetry(t) \/ XackRetry(t) \/ XaddDlq(t) \/ XackDlq(t)

DaemonNext ==
    \/ \E p \in Payloads : Send(p)
    \/ Tick
    \/ \E t \in Tasks : XReadGroup(t) \/ LoopNext(t) \/ RetryPath(t)
    \/ DaemonLoop("d1")

SpecDaemon == DaemonInit /\ [][DaemonNext]_vars

\* one worker and one retry daemon, either of which may die between two of its
\* client calls; the handler may answer anything, retries are due at once
CrashCfgs ==
    {[BaseCfg EXCEPT !.handler = "any", !.policy = ConstantPolicy(2, 0),
                     !.track = {"ended"}]}

CrashInit == StartedInit(CrashCfgs, {EmptyMap}, 0)

CrashNext ==
    \/ \E p \in Payloads : Send(p)
    \/ \E t \in Tasks : XReadGroup(t) \/ LoopNext(t) \/ XackAck(t) \/ RetryPath(t)
    \/ DStart("d1") \/ DZpopmin("d1") \/ DXadd("d1") \/ DSleep("d1")
    \/ \E w \in Workers : CrashWorker(w)
    \/ CrashDaemon("d1")

SpecCrash == CrashInit /\ [][CrashNext]_vars

\* a worker that has been made but not started; its start() is called twice,
\* the group may or may not exist yet; the handler acks
StartCfgs ==
    {[BaseCfg EXCEPT !.variant = v, !.handler = "ack", !.track = {"handled"}] :
        v \in {"current", "legacy"}}

StartInit ==
    /\ cfg \in StartCfgs
    /\ now = 0
    /\ xs = <<>>
    /\ grp \in {[exists |-> e, last |-> 0] : e \in BOOLEAN}
    /\ pel = EmptyMap
    /\ zsets = [k \in ZKeys |-> {}]
    /\ dlq = <<>>
    /\ kv = EmptyMap
    /\ running = [w \in Workers |-> FALSE]
    /\ inFlight = [w \in Workers |-> 0]
    /\ pc = [t \in Tasks |-> "none"]
    /\ batch = [t \in Tasks |-> <<>>]
    /\ cur = [t \in Tasks |-> NoCur]
    /\ scall = [c \in StartCalls |-> "idle"]
    /\ stp = EmptyMap
    /\ dmn = [d \in Daemons |-> DaemonOff]
    /\ swp = SweeperOff
    /\ snd = EmptyMap
    /\ fails = 0
    /\ obs = NoObs
    /\ pol = IdlePol

StartNext ==
    \/ \E c \in StartCalls : SStart(c) \/ SXinfoGroups(c) \/ SXgroupCreate(c)
    \/ \E p \in Payloads : Send(p)
    \/ \E t \in Tasks : XReadGroup(t) \/ Handler(t) \/ XackAck(t) \/ LoopNext(t)

SpecStart == StartInit /\ [][StartNext]_vars

\* producers made with idempotency, script-based and cache-based; the calls
\* are made concurrently, and a key may expire
ProducerCfgs ==
    {[BaseCfg EXCEPT !.variant = v, !.idem = TRUE] : v \in {"current", "legacy"}}

ProducerInit ==
    /\ cfg \in ProducerCfgs
    /\ now = 0
    /\ xs = <<>>
    /\ grp = [exists |-> FALSE, last |-> 0]
    /\ pel = EmptyMap
    /\ zsets = [k \in ZKeys |-> {}]
    /\ dlq = <<>>
    /\ kv = EmptyMap
    /\ running = [w \in Workers |-> FALSE]
    /\ inFlight = [w \in Workers |-> 0]
    /\ pc = [t \in Tasks |-> "none"]
    /\ batch = [t \in Tasks |-> <<>>]
    /\ cur = [t \in Tasks |-> NoCur]
    /\ scall = EmptyMap
    /\ stp = EmptyMap
    /\ dmn = [d \in Daemons |-> DaemonOff]
    /\ swp = SweeperOff
    /\ snd = [c \in SendCalls |-> IdleSend]
    /\ fails = 0
    /\ obs = NoObs
    /\ pol = IdlePol

ProducerNext ==
    \/ \E c \in SendCalls : PInvokeScript(c) \/ PSetIfNotExists(c) \/ PXadd(c)
    \/ \E k \in SendKeys : PExpire(k)

SpecProducer == ProducerInit /\ [][ProducerNext]_vars

\* scenarios of the integration tests: one worker, one retry daemon, no call
\* fails and nothing crashes; the clock advances while a retry waits for it
RunCfg == [BaseCfg EXCEPT !.clock = "lazy", !.msgs = 1, !.track = {"handled", "ended"}]

MaxN == Min(MaxAttemptsCfg, MaxStream)

\* the handler rejects every invocation
RejectCfgs ==
    {[RunCfg EXCEPT !.handler = "reject", !.policy = ConstantPolicy(n, d),
                    !.caps = caps] :
        n \in 1..MaxN, d \in 0..1, caps \in {AllCaps, AllCaps \ {"zpopmin"}}}

\* the handler rejects its first k invocations and then resolves
RejectKCfgs ==
    {[RunCfg EXCEPT !.handler = "rejectK", !.k = k, !.variant = v,
                    !.policy = ConstantPolicy(n, d)] :
        n \in 1..MaxN, k \in 0..(MaxN - 1), d \in 0..1, v \in {"current", "legacy"}}

\* the handler acks: unkeyed messages, or one keyed message with idempotency
AckCfgs ==
    {[RunCfg EXCEPT !.handler = "ack", !.variant = v, !.msgs = MaxMsgs] :
        v \in {"current", "legacy"}}
    \cup
    {[RunCfg EXCEPT !.handler = "ack", !.idem = TRUE, !.msgKeys = {"k"}]}

RunCfgs == RejectCfgs \cup {c \in RejectKCfgs : c.k < c.policy.maxAttempts} \cup AckCfgs

RunInit == StartedInit(RunCfgs, {EmptyMap}, 0)

RunWorker ==
    \E t \in Tasks :
        \/ XReadGroup(t) \/ LoopNext(t) \/ SetNx(t) \/ Handler(t) \/ XackAck(t)
        \/ SetDone(t) \/ RetryPath(t)

RunDaemon == DaemonPop("d1") \/ DZrange("d1") \/ DZrem("d1")

RunSend == \E p \in Payloads : Send(p)

RunNext == RunSend \/ Tick \/ RunWorker \/ RunDaemon

\* every pending continuation of the worker and of the daemon is run, the server
\* answers every call, the producer sends, and time passes
SpecRun ==
    /\ RunInit /\ [][RunNext]_vars
    /\ WF_vars(RunSend) /\ WF_vars(Tick) /\ WF_vars(RunWorker) /\ WF_vars(RunDaemon)

\* two workers of one group with the claim loop enabled; c1 may die between
\* two of its client calls; the clock advances while a pending entry is not
\* yet idle for minIdleMs
RecoverCfgs ==
    {[BaseCfg EXCEPT !.handler = "ack", !.pelClaim = "enabled", !.workers = Workers,
                     !.msgs = 1, !.clock = "lazy", !.track = {"hby"}]}

RecoverInit == StartedInit(RecoverCfgs, {EmptyMap}, 0)

\* one task of a worker: its read loop or its claim loop with the ack branch
TaskStep(t) ==
    \/ XReadGroup(t) \/ XPending(t) \/ XClaim(t) \/ Sleep(t)
    \/ Handler(t) \/ XackAck(t) \/ LoopNext(t)

RecoverNext ==
    \/ RunSend
    \/ Tick
    \/ \E t \in Tasks : TaskStep(t)
    \/ CrashWorker("c1")

\* every task of a live worker is run, the producer sends, and time passes
SpecRecover ==
    /\ RecoverInit /\ [][RecoverNext]_vars
    /\ WF_vars(RunSend) /\ WF_vars(Tick)
    /\ \A t \in Tasks : WF_vars(TaskStep(t))

\* a running worker with its claim loop, if it has one, whose stop() is called
\* once, with drain or without, while messages arrive and are handled
StopCfgs ==
    {[BaseCfg EXCEPT !.variant = v, !.handler = "ack", !.pelClaim = "enabled",
                     !.clock = "lazy"] :
        v \in {"current", "legacy"}}

StopInit ==
    /\ cfg \in StopCfgs
    /\ now = 0
    /\ xs = <<>>
    /\ grp = [exists |-> TRUE, last |-> 0]
    /\ pel = EmptyMap
    /\ zsets = [k \in ZKeys |-> {}]
    /\ dlq = <<>>
    /\ kv = EmptyMap
    /\ running = [w \in Workers |-> w \in cfg.workers]
    /\ inFlight = [w \in Workers |-> 0]
    /\ pc = [t \in Tasks |->
               IF Owner(t) \notin cfg.workers THEN "none"
               ELSE IF t[2] = "read" THEN "xreadgroup"
               ELSE IF t[2] = "claim" /\ cfg.variant = "current" /\ ClaimSpawned(cfg)
                    THEN "xpending"
               ELSE "none"]
    /\ batch = [t \in Tasks |-> <<>>]
    /\ cur = [t \in Tasks |-> NoCur]
    /\ scall = EmptyMap
    /\ stp = [c \in StopCalls |-> StopIdle]
    /\ dmn = [d \in Daemons |-> DaemonOff]
    /\ swp = SweeperOff
    /\ snd = EmptyMap
    /\ fails = 0
    /\ obs = NoObs
    /\ pol = IdlePol

StopCall(c) ==
    \/ \E drain \in BOOLEAN : \E timeout \in 0..MaxTimeout : SStop(c, drain, timeout)
    \/ SStopClaimExited(c)
    \/ SStopDrained(c)

StopNext ==
    \/ \E c \in StopCalls : StopCall(c)
    \/ RunSend
    \/ Tick
    \/ \E t \in Tasks : TaskStep(t)

SpecStop == StopInit /\ [][StopNext]_vars

\* a worker that has been made but not started: start() twice and stop() once
\* in any order and interleaving; the group may or may not exist, one client
\* call may fail; no message is sent
StartFailCfgs ==
    {[BaseCfg EXCEPT !.variant = v, !.handler = "ack", !.msgs = 0] :
        v \in {"current", "legacy"}}

\* workers that have been made but not started
NotStartedInit(C, f) ==
    /\ cfg \in C
    /\ now = 0
    /\ xs = <<>>
    /\ grp \in {[exists |-> e, last |-> 0] : e \in BOOLEAN}
    /\ pel = EmptyMap
    /\ zsets = [k \in ZKeys |-> {}]
    /\ dlq = <<>>
    /\ kv = EmptyMap
    /\ running = [w \in Workers |-> FALSE]
    /\ inFlight = [w \in Workers |-> 0]
    /\ pc = [t \in Tasks |-> "none"]
    /\ batch = [t \in Tasks |-> <<>>]
    /\ cur = [t \in Tasks |-> NoCur]
    /\ scall = [c \in StartCalls |-> "idle"]
    /\ stp = [c \in StopCalls |-> StopIdle]
    /\ dmn = [d \in Daemons |-> DaemonOff]
    /\ swp = SweeperOff
    /\ snd = EmptyMap
    /\ fails = f
    /\ obs = NoObs
    /\ pol = IdlePol

StartFailInit == NotStartedInit(StartFailCfgs, MaxFail)

StartCall(c) == SStart(c) \/ SXinfoGroups(c) \/ SXgroupCreate(c)

StartFailNext ==
    \/ \E c \in StartCalls : StartCall(c)
    \/ \E c \in StopCalls : \E drain \in BOOLEAN : SStop(c, drain, MaxTimeout)
    \/ \E t \in Tasks : XReadGroup(t) \/ Sleep(t)

SpecStartFail == StartFailInit /\ [][StartFailNext]_vars

\* a retry a worker has scheduled for payload p, due at score
Scheduled(p, score) ==
    [member |-> MemberOfFields(MainStream,
                    Encode([headers |-> Headers(BaseCfg.type, 1, NoKey),
                            payload |-> p])),
     score |-> score]

\* contents of the retry set: at most one retry per payload, due now or later
ScheduledSets ==
    {z \in SUBSET {Scheduled(p, sc) : p \in Payloads, sc \in 0..1} :
        \A a, b \in z : a.member = b.member => a = b}

\* a retry daemon alone on a retry set that workers have filled; one client
\* call may fail; the client offers pop-min, or only range and remove
DaemonFailCfgs ==
    {[BaseCfg EXCEPT !.workers = {}, !.caps = caps, !.clock = "lazy",
                     !.track = {"fwd"}] :
        caps \in {AllCaps, AllCaps \ {"zpopmin"}}}

\* no worker runs; the retry set holds what workers have scheduled
DaemonAloneInit(C, f) ==
    /\ cfg \in C
    /\ now = 0
    /\ xs = <<>>
    /\ grp = [exists |-> TRUE, last |-> 0]
    /\ pel = EmptyMap
    /\ \E z \in ScheduledSets : zsets = [k \in ZKeys |-> IF k = cfg.dzset THEN z ELSE {}]
    /\ dlq = <<>>
    /\ kv = EmptyMap
    /\ running = [w \in Workers |-> FALSE]
    /\ inFlight = [w \in Workers |-> 0]
    /\ pc = [t \in Tasks |-> "none"]
    /\ batch = [t \in Tasks |-> <<>>]
    /\ cur = [t \in Tasks |-> NoCur]
    /\ scall = EmptyMap
    /\ stp = EmptyMap
    /\ dmn = [d \in Daemons |-> DaemonOff]
    /\ swp = SweeperOff
    /\ snd = EmptyMap
    /\ fails = f
    /\ obs = NoObs
    /\ pol = IdlePol

DaemonFailInit == DaemonAloneInit(DaemonFailCfgs, MaxFail)

DaemonFailNext == DaemonLoop("d1") \/ Tick

SpecDaemonFail == DaemonFailInit /\ [][DaemonFailNext]_vars

\* a worker whose start() has resolved; afterwards stop() and start() are
\* each called once more, in any order and interleaving, while messages arrive
RestartCfgs ==
    {[BaseCfg EXCEPT !.variant = v, !.handler = "ack", !.clock = "lazy"] :
        v \in {"current", "legacy"}}

RestartInit ==
    /\ cfg \in RestartCfgs
    /\ now = 0
    /\ xs = <<>>
    /\ grp = [exists |-> TRUE, last |-> 0]
    /\ pel = EmptyMap
    /\ zsets = [k \in ZKeys |-> {}]
    /\ dlq = <<>>
    /\ kv = EmptyMap
    /\ running = [w \in Workers |-> w \in cfg.workers]
    /\ inFlight = [w \in Workers |-> 0]
    /\ pc = [t \in Tasks |->
               IF Owner(t) \in cfg.workers /\ t[2] = "read" THEN "xreadgroup"
               ELSE "none"]
    /\ batch = [t \in Tasks |-> <<>>]
    /\ cur = [t \in Tasks |-> NoCur]
    /\ scall = [c \in StartCalls |-> "idle"]
    /\ stp = [c \in StopCalls |-> StopIdle]
    /\ dmn = [d \in Daemons |-> DaemonOff]
    /\ swp = SweeperOff
    /\ snd = EmptyMap
    /\ fails = 0
    /\ obs = NoObs
    /\ pol = IdlePol

RestartNext ==
    \/ SStart(<<"c1", "s1">>) \/ SXinfoGroups(<<"c1", "s1">>)
    \/ \E drain \in BOOLEAN : \E timeout \in 0..MaxTimeout :
           SStop(<<"c1", "p1">>, drain, timeout)
    \/ SStopDrained(<<"c1", "p1">>)
    \/ RunSend
    \/ Tick
    \/ \E t \in Tasks : XReadGroup(t) \/ Handler(t) \/ XackAck(t) \/ LoopNext(t)

SpecRestart == RestartInit /\ [][RestartNext]_vars

\* worker c2 reads and acks while time passes; the standalone sweeper claims
\* for consumer c1, with a client that offers the claim capability or not
SweeperCfgs ==
    {[BaseCfg EXCEPT !.workers = {"c2"}, !.handler = "ack", !.caps = caps,
                     !.maxPerTick = n, !.track = {"handled"}] :
        caps \in {AllCaps, AllCaps \ {"xclaim"}}, n \in 1..2}

SweeperInit == StartedInit(SweeperCfgs, {EmptyMap}, 0)

SweeperLoop ==
    \/ SwStart \/ SwXpending \/ SwXclaim \/ SwSleep \/ SwStop \/ SwStopped

SweeperNext ==
    \/ RunSend
    \/ Tick
    \/ \E t \in Tasks : XReadGroup(t) \/ LoopNext(t) \/ Handler(t) \/ XackAck(t)
    \/ SweeperLoop

SpecSweeper == SweeperInit /\ [][SweeperNext]_vars

\* two workers of one group with handler-level idempotency, messages that
\* share one key, a handler that rejects; the reservation may outlive its TTL
ReserveCfgs ==
    {[BaseCfg EXCEPT !.idem = TRUE, !.msgKeys = {"k"}, !.handler = "reject",
                     !.workers = Workers, !.mode = m,
                     !.policy = ConstantPolicy(n, 0)] :
        m \in {"zset", "none"}, n \in 1..2}

ReserveInit == StartedInit(ReserveCfgs, {EmptyMap}, 0)

\* pendingTtlSec of the reservation of key k has passed
ReservationExpires == Expire(ConsumedKey("k"))

ReserveNext ==
    \/ RunSend
    \/ ReservationExpires
    \/ \E t \in Tasks :
         \/ XReadGroup(t) \/ LoopNext(t)
         \/ SetNx(t) \/ Get(t) \/ XackConflict(t) \/ ZaddConflict(t)
         \/ Handler(t) \/ DelRetry(t) \/ ZaddRetry(t) \/ XaddRetry(t) \/ XackRetry(t)
         \/ DelDlq(t) \/ XaddDlq(t) \/ XackDlq(t)

SpecReserve == ReserveInit /\ [][ReserveNext]_vars

\* a retry daemon alone on a retry set that workers have filled, with a
\* client that offers pop-min, with or without the optional sorted-set add
PopMinCfgs ==
    {[BaseCfg EXCEPT !.workers = {}, !.caps = caps, !.maxBatch = b,
                     !.clock = "lazy", !.track = {"fwd"}] :
        caps \in {AllCaps, AllCaps \ {"zadd"}}, b \in 1..2}

PopMinInit == DaemonAloneInit(PopMinCfgs, 0)

PopMinNext ==
    \/ DStart("d1") \/ DZpopmin("d1") \/ DReinsert("d1") \/ DXadd("d1")
    \/ DSleep("d1") \/ Tick

SpecPopMin == PopMinInit /\ [][PopMinNext]_vars

\* one message with or without a key, a handler that rejects it, a worker of
\* either implementation in zset mode and a retry daemon on the same set
MemberCfgs ==
    {[RunCfg EXCEPT !.handler = "reject", !.variant = v, !.caps = caps,
                    !.policy = ConstantPolicy(n, d), !.msgKeys = {key},
                    !.track = {"fwd", "handled"}] :
        v \in {"current", "legacy"}, caps \in {AllCaps, AllCaps \ {"zpopmin"}},
        n \in 2..MaxN, d \in 0..1, key \in {NoKey, "k"}}

MemberInit == StartedInit(MemberCfgs, {EmptyMap}, 0)

MemberNext ==
    \/ RunSend \/ Tick
    \/ \E t \in Tasks : XReadGroup(t) \/ LoopNext(t) \/ RetryPath(t)
    \/ DStart("d1") \/ DZpopmin("d1") \/ DZrange("d1") \/ DZrem("d1")
    \/ DXadd("d1") \/ DSleep("d1")

SpecMember == MemberInit /\ [][MemberNext]_vars

\* one worker, which may die between two of its client calls, and one retry
\* daemon that stays alive; the handler may answer anything
CrashWorkerNext ==
    \/ RunSend
    \/ \E t \in Tasks : XReadGroup(t) \/ LoopNext(t) \/ XackAck(t) \/ RetryPath(t)
    \/ DStart("d1") \/ DZpopmin("d1") \/ DXadd("d1") \/ DSleep("d1")
    \/ CrashWorker("c1")

SpecCrashWorker == CrashInit /\ [][CrashWorkerNext]_vars

\* a worker made with pelClaim {enabled: true, minIdleMs} or with pelClaim
\* {minIdleMs} alone ("unset"), started once; messages arrive and are handled
ClaimDefaultCfgs ==
    {[BaseCfg EXCEPT !.handler = "ack", !.pelClaim = e, !.clock = "lazy"] :
        e \in {"enabled", "unset"}}

ClaimDefaultInit == NotStartedInit(ClaimDefaultCfgs, 0)

ClaimDefaultNext ==
    \/ StartCall(<<"c1", "s1">>)
    \/ RunSend
    \/ Tick
    \/ \E t \in Tasks : TaskStep(t)

SpecClaimDefault == ClaimDefaultInit /\ [][ClaimDefaultNext]_vars

\* two workers of one group, each started once; the group may or may not
\* exist beforehand; messages arrive and are handled; no call fails
GroupCfgs ==
    {[BaseCfg EXCEPT !.variant = v, !.handler = "ack", !.workers = Workers,
                     !.msgs = 1, !.track = {"busy"}] :
        v \in {"current", "legacy"}}

GroupInit == NotStartedInit(GroupCfgs, 0)

GroupNext ==
    \/ \E w \in Workers : StartCall(<<w, "s1">>)
    \/ RunSend
    \/ \E t \in Tasks : XReadGroup(t) \/ Handler(t) \/ XackAck(t) \/ LoopNext(t)

SpecGroup == GroupInit /\ [][GroupNext]_vars

\* two retry daemons on one retry set that workers have filled, each started
\* and stopped at will, with pop-min or with range and remove; no call fails
TwoDaemonCfgs ==
    {[BaseCfg EXCEPT !.workers = {}, !.caps = caps, !.clock = "lazy",
                     !.track = {"fwd"}] :
        caps \in {AllCaps, AllCaps \ {"zpopmin"}}}

TwoDaemonInit == DaemonAloneInit(TwoDaemonCfgs, 0)

TwoDaemonNext == (\E d \in Daemons : DaemonLoop(d)) \/ Tick

SpecTwoDaemons == TwoDaemonInit /\ [][TwoDaemonNext]_vars

\* one worker with handler-level idempotency whose handler rejects; the key of
\* the messages is free or reserved by another consumer; the retry set is the
\* default one or given by the caller; the client may lack the sorted-set add
ScheduleCfgs ==
    {[BaseCfg EXCEPT !.idem = TRUE, !.msgKeys = {"k"}, !.handler = "reject",
                     !.policy = ConstantPolicy(2, 0), !.caps = caps,
                     !.retryZset = z] :
        caps \in {AllCaps, AllCaps \ {"zadd"}}, z \in {"", CustomRetryKey}}

ScheduleInit ==
    StartedInit(ScheduleCfgs, {EmptyMap, ConsumedKey("k") :> PendingBy("c2")}, 0)

ScheduleNext ==
    \/ RunSend
    \/ Tick
    \/ \E t \in Tasks :
         \/ XReadGroup(t) \/ LoopNext(t)
         \/ SetNx(t) \/ Get(t) \/ XackConflict(t) \/ ZaddConflict(t)
         \/ Handler(t) \/ DelRetry(t) \/ ZaddRetry(t) \/ XaddRetry(t) \/ XackRetry(t)
         \/ DelDlq(t) \/ XaddDlq(t) \/ XackDlq(t)

SpecSchedule == ScheduleInit /\ [][ScheduleNext]_vars

C7_StrictlyGreater == \A e \in obs.succs : e.next > e.orig

(***************************************************************************)
(* C7 amended: a successor written by the retry terminal carries the       *)
(* attempt of the original plus one; the copy rescheduled on an            *)
(* idempotency conflict carries the attempt of the original unchanged; so  *)
(* the attempt never decreases along a chain.                              *)
(***************************************************************************)
C7_NeverDecreases ==
    \A e \in obs.succs :
        /\ e.via = "retry" => e.next = e.orig + 1
        /\ e.via = "conflict" => e.next = e.orig

C7_Witness ==
    /\ \E e \in obs.succs : e.via = "retry" /\ e.orig = 1
    /\ \E e \in obs.succs : e.via = "conflict"

(***************************************************************************)
(* C8: with a single retry daemon, every member the daemon appends to a    *)
(* stream is one that a pop-min or remove call of this daemon took out of  *)
(* the sorted set and that it has neither re-inserted nor appended since,  *)
(* so no removed member is appended twice.                                 *)
(***************************************************************************)
C8_ForwardsOnlyOwned == obs.unowned = {}

C8_Witness ==
    /\ obs.nfwd >= 2
    /\ \E p \in Payloads : \E i \in DOMAIN xs : \E j \in DOMAIN xs :
         /\ i < j
         /\ Decode(xs[i]).payload = p /\ Decode(xs[j]).payload = p
         /\ Decode(xs[j]).headers.attempt = 1

\* where a payload can be while its handling has not ended
InStream(p) ==
    \E i \in DOMAIN xs :
        /\ Decodable(xs[i]) /\ Decode(xs[i]).payload = p
        /\ (i > grp.last \/ i \in DOMAIN pel)

InRetrySet(p) ==
    \E k \in ZKeys : \E e \in zsets[k] : MemberPayload(e.member) = p

\* in the memory of a daemon process that is alive and will append or re-insert it
HeldByDaemon(p) ==
    \E d \in Daemons :
        /\ Alive(dmn[d].pc)
        /\ \/ \E i \in DOMAIN dmn[d].ready : MemberPayload(dmn[d].ready[i].member) = p
           \/ \E i \in DOMAIN dmn[d].items : MemberPayload(dmn[d].items[i].member) = p

(***************************************************************************)
(* C2: at-least-once, also after a worker or daemon process died between   *)
(* two of its client calls: every sent message whose handling has not      *)
(* ended in an ack terminal or a dead-letter append is an undelivered or   *)
(* pending entry of the main stream or a member of the retry sorted set    *)
(* (a member a live daemon has taken out and is about to append or         *)
(* re-insert is counted as present).                                       *)
(***************************************************************************)
C2_NoMessageLost ==
    \A p \in obs.sent \ obs.ended : InStream(p) \/ InRetrySet(p) \/ HeldByDaemon(p)

DlqError(i) == JSONparse(dlq[i].error)
DlqHandledBy(i) == JSONparse(dlq[i].handledBy)

C4_Safe ==
    /\ obs.handled[1] <= cfg.policy.maxAttempts
    /\ Len(dlq) <= 1
    /\ Len(dlq) = 1 =>
         /\ obs.handled[1] = cfg.policy.maxAttempts
         /\ DlqError(1).reason = MaxAttemptsReason(cfg.policy.maxAttempts)
         /\ DlqHandledBy(1) = [group |-> Group, consumer |-> "c1"]
         /\ JSONparse(dlq[1].payload) = 1

C4_Done == obs.handled[1] = cfg.policy.maxAttempts /\ Len(dlq) = 1

C5_Safe == obs.handled[1] <= cfg.k + 1 /\ dlq = <<>>

C5_Done == obs.handled[1] = cfg.k + 1 /\ 1 \in obs.ended /\ dlq = <<>> /\ pel = EmptyMap

(***************************************************************************)
(* C5: with a handler that rejects its first k invocations and then        *)
(* resolves, k < maxAttempts, a worker in zset mode and a retry daemon on  *)
(* the same sorted set, under fair scheduling one sent message is          *)
(* eventually handled exactly k + 1 times, the last terminal is ack, and   *)
(* the dead-letter stream stays empty.                                     *)
(***************************************************************************)
C5_RetryThenAck ==
    /\ [](cfg.handler = "rejectK" => C5_Safe)
    /\ <>[](cfg.handler = "rejectK" => C5_Done)

C6_Safe ==
    /\ \A p \in Payloads : obs.handled[p] <= 1 /\ (p \in obs.ended => obs.handled[p] = 1)
    /\ dlq = <<>>
    /\ \A k \in ZKeys : zsets[k] = {}

C6_Done ==
    /\ \A p \in 1..cfg.msgs : obs.handled[p] = 1 /\ p \in obs.ended
    /\ pel = EmptyMap

(***************************************************************************)
(* C6: a message sent after start() has resolved and handled by a handler  *)
(* that acks is passed to the handler exactly once, with the payload that  *)
(* was sent, and is then acknowledged; nothing is ever added to the dead-  *)
(* letter stream or to a retry sorted set.                                 *)
(***************************************************************************)
C6_HappyPath ==
    /\ [](cfg.handler = "ack" => C6_Safe)
    /\ <>[](cfg.handler = "ack" => C6_Done)

C6_Witness ==
    /\ cfg.handler = "ack" /\ cfg.msgs = MaxMsgs
    /\ C6_Done /\ Len(xs) = MaxMsgs

ReadLoops(w) ==
    Cardinality({t \in Tasks : Owner(t) = w /\ IsReadTask(t) /\ Alive(pc[t])})

(***************************************************************************)
(* C9: once two start() calls on the same worker have both resolved, the   *)
(* second made after the first resolved or while the first still awaited   *)
(* the group-ensure step, the group exists and the worker has exactly one  *)
(* read-loop task.                                                         *)
(***************************************************************************)
C9_StartTwice ==
    (scall[<<"c1", "s1">>] = "resolved" /\ scall[<<"c1", "s2">>] = "resolved")
        => (grp.exists /\ ReadLoops("c1") = 1)

\* the send calls with key k that have returned, and the entries carrying k
Returned(k) == {c \in SendCalls : snd[c].pc = "done" /\ snd[c].key = k}
EntriesOf(k) == {i \in DOMAIN xs : Decode(xs[i]).headers.key = k}

(***************************************************************************)
(* C10 as stated: while no key has expired, the send calls made with one   *)
(* key have appended exactly one entry as soon as one of them has          *)
(* returned, and every call that has returned returned the id of that      *)
(* entry.                                                                  *)
(***************************************************************************)
C10_AllReturnTheId ==
    obs.expired = 0 =>
        \A k \in SendKeys : \A c \in Returned(k) :
            EntriesOf(k) = {snd[c].ret.id}

(***************************************************************************)
(* C10 amended: while no key has expired, the send calls made with one key *)
(* append at most one entry; with the script producer exactly one, and     *)
(* every returned call returned its id; with the cache-based producer a    *)
(* returned call returned either the id of the one entry or the sentinel   *)
(* "0-0", and at most one call returned an id.                             *)
(***************************************************************************)
C10_OneEntryIdOrSentinel ==
    obs.expired = 0 =>
        \A k \in SendKeys :
            /\ Cardinality(EntriesOf(k)) <= 1
            /\ \A c \in Returned(k) :
                 IF cfg.variant = "current" THEN EntriesOf(k) = {snd[c].ret.id}
                 ELSE snd[c].ret = SentinelId \/ EntriesOf(k) = {snd[c].ret.id}
            /\ cfg.variant = "legacy" =>
                 Cardinality({c \in Returned(k) : snd[c].ret # SentinelId}) <= 1

C10_Witness ==
    /\ obs.expired = 0
    /\ \E k \in SendKeys : Cardinality(Returned(k)) >= 2 /\ Cardinality(EntriesOf(k)) = 1
    /\ \E k \in SendKeys : \E c \in Returned(k) : snd[c].ret.id = 2

(***************************************************************************)
(* C11: an entry that was pending for worker c1 when c1 died is, with the  *)
(* claim loop of the running worker c2 enabled, eventually handled by c2   *)
(* and acknowledged (it leaves the pending list).                          *)
(***************************************************************************)
C11_Reclaimed ==
    \A i \in 1..MaxStream :
        [](i \in obs.orphans => <>(i \notin DOMAIN pel /\ <<i, "c2">> \in obs.hby))

C11_Witness ==
    /\ 1 \in obs.orphans
    /\ 1 \notin DOMAIN pel
    /\ <<1, "c2">> \in obs.hby
    /\ <<1, "c1">> \notin obs.hby

(***************************************************************************)
(* C12: the members a daemon has collected in one tick are appended in     *)
(* ascending score order: while the daemon is appending, the members still *)
(* to append are in ascending order of their scores.                       *)
(***************************************************************************)
C12_AscendingWithinTick ==
    \A d \in Daemons :
        dmn[d].pc = "xadd" =>
            \A i, j \in DOMAIN dmn[d].ready :
                i < j => dmn[d].ready[i].score <= dmn[d].ready[j].score

\* the same for the range and remove strategy only
C12_AscendingRange ==
    "zpopmin" \notin cfg.caps => C12_AscendingWithinTick

C12_Witness ==
    \E d \in Daemons : dmn[d].pc = "xadd" /\ Len(dmn[d].ready) = 2

\* the awaits inside processMessage
ProcessPcs ==
    {"setNx", "get", "xackDone", "xackConflict", "zaddConflict", "handler",
     "xackAck", "setDone", "delRetry", "zaddRetry", "xaddRetry", "xackRetry",
     "delDlq", "xaddDlq", "xackDlq", "catchDel", "catchXack"}

InProcess(w) == {t \in Tasks : Owner(t) = w /\ pc[t] \in ProcessPcs}

(***************************************************************************)
(* C13: at any time at most one processMessage call is in progress in one  *)
(* worker, also when its claim loop runs next to its read loop.            *)
(***************************************************************************)
C13_Sequential == \A w \in Workers : Cardinality(InProcess(w)) <= 1

\* the weaker statement for the handler alone
C13_OneHandler ==
    \A w \in Workers : Cardinality({t \in InProcess(w) : pc[t] = "handler"}) <= 1

\* entries a task of the worker still has to finish: the one it is processing
\* and the rest of its batch
InHand ==
    {cur[t].id : t \in Tasks} \cup
    UNION {{batch[t][i].id : i \in DOMAIN batch[t]} : t \in Tasks}

(***************************************************************************)
(* C14: an entry that does not decode is acknowledged without the handler  *)
(* being invoked: as long as no client call has failed, a delivered entry  *)
(* that does not decode and is no longer in the hands of a task is not     *)
(* pending.                                                                *)
(***************************************************************************)
C14_DecodeFailureAcked ==
    fails = MaxFail =>
        \A i \in DOMAIN pel : ~Decodable(xs[i]) => i \in InHand

\* the same for the consumer of src/consumer.ts alone
C14_LegacyAcked ==
    cfg.variant = "legacy" => C14_DecodeFailureAcked

\* the client calls of the ack, retry and DLQ branches
TerminalPcs ==
    {"xackAck", "setDone", "delRetry", "zaddRetry", "xaddRetry", "xackRetry",
     "delDlq", "xaddDlq", "xackDlq"}

\* this consumer's reservation of the key of c is in the store
HoldsReservation(t, c) ==
    /\ c.key # NoIdem
    /\ c.key \in DOMAIN kv
    /\ kv[c.key] = PendingBy(Owner(t))

(***************************************************************************)
(* C15: when processMessage has returned for an entry after a client call  *)
(* of its ack, retry or DLQ branch failed, the entry has been acknowledged *)
(* (it is not pending) and the store holds no reservation of this consumer *)
(* for the entry's key.                                                    *)
(***************************************************************************)
C15_AckedAfterException ==
    \A t \in Tasks :
        (pc[t] = "returned" /\ cur[t].failed \in TerminalPcs) =>
            /\ cur[t].acks >= 1
            /\ cur[t].id \notin DOMAIN pel
            /\ ~HoldsReservation(t, cur[t])

C15_Witness ==
    \E t \in Tasks :
        /\ pc[t] = "returned"
        /\ cur[t].failed = "xackAck"
        /\ cur[t].reserved
        /\ cur[t].key \notin DOMAIN kv

(***************************************************************************)
(* C16: a stop({drain: true, timeoutMs}) call that finds the worker        *)
(* running sets running to false in the step in which it is made, and the  *)
(* step in which it resolves is taken with the in-flight count at zero or  *)
(* with the deadline (time of the call plus timeoutMs) reached.            *)
(***************************************************************************)
C16_DrainResolves ==
    [][\A c \in DOMAIN stp :
         /\ (stp[c].pc = "idle" /\ stp'[c].pc # "idle" /\ running[c[1]])
                => ~running'[c[1]]
         /\ (stp[c].pc # "resolved" /\ stp'[c].pc = "resolved"
                /\ stp'[c].drain /\ stp'[c].acted)
                => (inFlight[c[1]] = 0 \/ now >= stp'[c].deadline)]_vars

\* a draining stop() that had to wait and resolved before its deadline
C16_Witness ==
    \E c \in DOMAIN stp :
        /\ stp[c].pc = "resolved" /\ stp[c].drain /\ stp[c].acted /\ stp[c].waited
        /\ now < stp[c].deadline
        /\ inFlight[c[1]] = 0

\* a draining stop() that resolved at its deadline with a message in flight
C16_AtDeadline ==
    \E c \in DOMAIN stp :
        /\ stp[c].pc = "resolved" /\ stp[c].drain /\ stp[c].waited
        /\ now >= stp[c].deadline
        /\ inFlight[c[1]] > 0

\* the claim-loop tasks of w that have not ended
ClaimLoops(w) ==
    {t \in Tasks : Owner(t) = w /\ ~IsReadTask(t) /\ pc[t] \notin {"none", "exited"}}

(***************************************************************************)
(* C17: when a stop() call that found the worker running has resolved, the *)
(* worker's claim loop has ended, whether stop was called with drain or    *)
(* without.                                                                *)
(***************************************************************************)
C17_StopAwaitsClaimLoop ==
    \A c \in DOMAIN stp :
        (stp[c].pc = "resolved" /\ stp[c].acted) => ClaimLoops(c[1]) = {}

\* the same for stop({drain: false}) alone
C17_NoDrainAwaits ==
    \A c \in DOMAIN stp :
        (stp[c].pc = "resolved" /\ stp[c].acted /\ ~stp[c].drain)
            => ClaimLoops(c[1]) = {}

\* after a draining stop() has resolved the claim loop is about to claim
C17_ClaimsAfterStop ==
    \E c \in DOMAIN stp :
        /\ stp[c].pc = "resolved" /\ stp[c].acted /\ stp[c].drain
        /\ \E t \in ClaimLoops(c[1]) : pc[t] = "xpending" /\ IdlePending(cfg.minIdle) # {}

\* start() call c was rejected and no other start() of its worker was made
OnlyRejected(c) ==
    /\ scall[c] = "rejected"
    /\ \A c2 \in DOMAIN scall : (c2 # c /\ c2[1] = c[1]) => scall[c2] = "idle"

(***************************************************************************)
(* C18: when the only start() call made on a worker was rejected by the    *)
(* group-ensure step, the worker has no read loop and no claim loop and    *)
(* its running flag is false (so that the next start() ensures the group   *)
(* again and a stop() returns at once).                                    *)
(***************************************************************************)
C18_RejectedNotRunning ==
    \A c \in DOMAIN scall :
        OnlyRejected(c) =>
            /\ ~running[c[1]]
            /\ \A t \in Tasks : Owner(t) = c[1] => pc[t] = "none"

\* the part that holds: nothing is spawned
C18_RejectedNothingSpawned ==
    \A c \in DOMAIN scall :
        OnlyRejected(c) => \A t \in Tasks : Owner(t) = c[1] => pc[t] = "none"

\* the same for the worker of pendingSweeper.ts alone
C18_CurrentNotRunning ==
    cfg.variant = "current" => C18_RejectedNotRunning

\* after a rejected start() a second start() resolved without any loop running
C18_StartSkipped ==
    /\ scall[<<"c1", "s1">>] = "rejected"
    /\ scall[<<"c1", "s2">>] = "resolved"
    /\ stp[<<"c1", "p1">>].pc = "idle"
    /\ \A t \in Tasks : pc[t] = "none"

(***************************************************************************)
(* C19: while a worker is running its read loop has not ended, whatever    *)
(* client call has failed.                                                 *)
(***************************************************************************)
C19_ReadLoopSurvives ==
    \A t \in Tasks :
        (IsReadTask(t) /\ running[Owner(t)]) => pc[t] \notin {"exited", "failed"}

\* the same for the worker of pendingSweeper.ts alone
C19_CurrentSurvives ==
    cfg.variant = "current" => C19_ReadLoopSurvives

\* the loop of pendingSweeper.ts backs off after a failed call
C19_BacksOff ==
    \E t \in Tasks :
        IsReadTask(t) /\ pc[t] = "sleep" /\ fails < MaxFail /\ running[Owner(t)]

(***************************************************************************)
(* C20: a retry daemon that was started and whose stop() was not called    *)
(* is running (isRunning() is true) and its loop task has not ended,       *)
(* whatever client call has failed.                                        *)
(***************************************************************************)
C20_DaemonSurvives ==
    \A d \in Daemons :
        (dmn[d].loop /\ ~dmn[d].stopping) =>
            (dmn[d].running /\ dmn[d].pc \notin {"failed", "exited"})

\* a failing append is caught: the member is dropped and the next tick begins
C20_AppendFailureSurvived ==
    \E d \in Daemons :
        /\ obs.dropped # {}
        /\ dmn[d].running /\ ~dmn[d].stopping
        /\ dmn[d].pc \in {"zpopmin", "zrange"}

\* processMessage has returned from its ack branch for a keyed entry whose
\* key this consumer had reserved, with no client call failing
AckedReserved(t) ==
    /\ pc[t] = "returned"
    /\ cur[t].key # NoIdem
    /\ cur[t].reserved
    /\ cur[t].res.action = "ack"
    /\ cur[t].failed = "none"

(***************************************************************************)
(* C21: when a keyed entry has ended with the ack terminal while this      *)
(* consumer held the reservation, the idempotency key holds DONE.          *)
(***************************************************************************)
C21_DoneAfterAck ==
    \A t \in Tasks :
        AckedReserved(t) =>
            (cur[t].key \in DOMAIN kv /\ kv[cur[t].key] = DoneValue)

\* what the key holds instead: the reservation
C21_StillPending ==
    \E t \in Tasks :
        AckedReserved(t) /\ HoldsReservation(t, cur[t])

\* the part that holds: an entry processed while DONE is stored is acknowledged
\* without a handler invocation
C21_DoneSkipsHandler ==
    \A t \in Tasks :
        (pc[t] = "returned" /\ cur[t].failed = "none" /\ cur[t].key # NoIdem
            /\ ~cur[t].reserved /\ cur[t].key \in DOMAIN kv
            /\ kv[cur[t].key] = DoneValue)
        => (cur[t].res = NoResult /\ cur[t].acks = 1 /\ cur[t].id \notin DOMAIN pel)

\* processMessage has returned for a keyed entry whose reservation failed while
\* the key held another consumer's reservation
Conflicted(t) ==
    /\ pc[t] = "returned"
    /\ cur[t].key # NoIdem
    /\ ~cur[t].reserved
    /\ cur[t].key \in DOMAIN kv
    /\ kv[cur[t].key] # DoneValue

\* the copy of the entry of t with a due time of at most now + 500 ms is in set k
CopyIn(t, k) ==
    \E e \in zsets[k] :
        /\ e.member = MemberOfFields(MainStream, cur[t].fields)
        /\ e.score <= now + ConflictDelay

(***************************************************************************)
(* C22: when processMessage has returned for a keyed entry whose           *)
(* reservation failed and whose key does not hold DONE, the handler was    *)
(* not invoked, the entry is acknowledged, and one copy of its field map   *)
(* is in a retry sorted set with a due time of at most now + 500 ms.       *)
(***************************************************************************)
C22_ConflictRescheduled ==
    \A t \in Tasks :
        Conflicted(t) =>
            /\ cur[t].res = NoResult
            /\ cur[t].id \notin DOMAIN pel
            /\ cur[t].succ = 1
            /\ \E k \in ZKeys : CopyIn(t, k)

\* the same for a client that has the sorted-set add
C22_WithZadd ==
    "zadd" \in cfg.caps => C22_ConflictRescheduled

\* the entry is acknowledged and no copy of it is anywhere
C22_Dropped ==
    \E t \in Tasks :
        /\ Conflicted(t)
        /\ cur[t].id \notin DOMAIN pel
        /\ \A k \in ZKeys : zsets[k] = {}

(***************************************************************************)
(* C30: every member the worker schedules is in its configured retry       *)
(* sorted set (scheduling.retryZset when given, otherwise "<stream>:retry"):*)
(* no other sorted set holds a member.                                     *)
(***************************************************************************)
C30_ConfiguredRetrySet ==
    \A k \in ZKeys \ {RetryKey} : zsets[k] = {}

\* the part that holds: the successors written by the retry terminal
C30_RetryTerminalSet ==
    \A k \in ZKeys \ {RetryKey} : \A e \in zsets[k] : MemberAttempt(e.member) = 0

\* the same for a worker without a caller-provided retry set
C30_DefaultSet ==
    cfg.retryZset = "" => C30_ConfiguredRetrySet

\* nothing was appended twice
ForwardedOnce == \A i, j \in DOMAIN xs : xs[i] = xs[j] => i = j

(***************************************************************************)
(* C23: with several daemons on one sorted set, every member appended to   *)
(* the stream was removed from the set by the daemon that appended it, and *)
(* no member is appended twice.                                            *)
(***************************************************************************)
C23_OneDaemonForwards == obs.unowned = {} /\ ForwardedOnce

\* the same for the pop-min strategy alone
C23_PopMinForwards == "zpopmin" \in cfg.caps => C23_OneDaemonForwards

\* a member was appended twice while another one, removed from the set, is in
\* no daemon's hands and was never appended
C23_LostAndDoubled ==
    /\ ~ForwardedOnce
    /\ \A d \in Daemons : dmn[d].ready = <<>> /\ dmn[d].items = <<>>
    /\ zsets[cfg.dzset] = {}
    /\ \E p \in Payloads : \A i \in DOMAIN xs : Decode(xs[i]).payload # p

(***************************************************************************)
(* C24: with no client call failing, no start() call is rejected, also     *)
(* when the group was created by the other worker between the group query  *)
(* and the create call; once a start() call has resolved the group exists, *)
(* the worker is running and its read loop is alive.                       *)
(***************************************************************************)
C24_StartResolves ==
    \A c \in DOMAIN scall :
        /\ scall[c] # "rejected"
        /\ scall[c] = "resolved" =>
              /\ grp.exists
              /\ running[c[1]]
              /\ ReadLoops(c[1]) = 1

\* both workers started, one of them after the server answered BUSYGROUP
C24_Witness ==
    /\ obs.busy = 1
    /\ \A w \in Workers : scall[<<w, "s1">>] = "resolved" /\ ReadLoops(w) = 1

(***************************************************************************)
(* C25: when the pelClaim option is given, with enabled: true or without   *)
(* an enabled field, and the client has xpending and xclaim, a resolved    *)
(* start() has spawned the claim loop.                                     *)
(***************************************************************************)
C25_ClaimLoopByDefault ==
    \A c \in DOMAIN scall :
        (/\ scall[c] = "resolved"
         /\ cfg.pelClaim \in {"enabled", "unset"}
         /\ {"xpending", "xclaim"} \subseteq cfg.caps)
        => ClaimLoops(c[1]) # {}

\* the same when enabled: true is given
C25_ClaimLoopWhenEnabled ==
    cfg.pelClaim = "enabled" => C25_ClaimLoopByDefault

(***************************************************************************)
(* C26: whenever the configured isRetryable predicate rejects the error,   *)
(* backoffPolicy.next returns dlq with reason "non-retryable", whatever    *)
(* the attempt, also when the attempt has reached maxAttempts - 1.         *)
(***************************************************************************)
C26_NonRetryableFirst ==
    (pol.res # NoResult /\ ~IsRetryable(pol.opts, pol.err)) =>
        pol.res = DlqResult(NonRetryable)

C26_Witness ==
    /\ pol.res = DlqResult(NonRetryable)
    /\ pol.err = "fatal"
    /\ pol.opts.isRetryable = "notFatal"
    /\ pol.attempt + 1 >= pol.opts.maxAttempts

C28_SuccessorBeforeAck ==
    /\ \A t \in Tasks :
         /\ pc[t] = "xackRetry" => (cur[t].succ = 1 /\ cur[t].id \in DOMAIN pel)
         /\ pc[t] = "xackDlq" => (cur[t].dlqs = 1 /\ cur[t].id \in DOMAIN pel)
    /\ \A p \in obs.sent \ obs.ended :
         InStream(p) \/ InRetrySet(p) \/ HeldByDaemon(p)

\* the worker died between writing the successor and the ack: the original
\* is pending and its successor is scheduled
C28_Witness ==
    /\ pc[<<"c1", "read">>] = "dead"
    /\ \E i \in DOMAIN pel :
         /\ pel[i].owner = "c1"
         /\ InRetrySet(Decode(xs[i]).payload)

(***************************************************************************)
(* C29: every member a worker in zset mode puts into the retry set is one  *)
(* the daemon can forward; the daemon drops no member, and each entry it   *)
(* appends to the main stream decodes to the payload, type and key of the  *)
(* entry before it with the attempt raised by one.                         *)
(***************************************************************************)
SuccessorOf(prev, next) ==
    Decode(next) = [Decode(prev) EXCEPT !.headers.attempt = @ + 1]

MemberForwarded ==
    /\ \A e \in zsets[cfg.dzset] : Forwardable(e.member)
    /\ obs.dropped = {}
    /\ obs.nfwd = Len(xs) - Cardinality(obs.sent)
    /\ \A i \in 2..Len(xs) : SuccessorOf(xs[i - 1], xs[i])

C29_MemberForwarded == MemberForwarded

\* the same for the worker of stream/pendingSweeper.ts alone
C29_CurrentForwarded == cfg.variant = "current" => MemberForwarded

\* a member of the current worker was forwarded: the stream holds the entry
\* sent and its successor with attempt 1
C29_Forwarded ==
    /\ cfg.variant = "current"
    /\ obs.nfwd >= 1
    /\ Len(xs) >= 2
    /\ Decode(xs[2]).headers.attempt = 1

\* the member of src/consumer.ts was popped by the daemon and dropped
C29_LegacyDropped ==
    /\ cfg.variant = "legacy"
    /\ \E m \in obs.dropped : ~Forwardable(m) /\ MemberAttempt(m) = 1
    /\ Len(xs) = 1

(***************************************************************************)
(* C31: in the pop-min strategy every member the daemon has collected for  *)
(* forwarding has a score not above the now read at the start of the tick, *)
(* and there are at most maxBatch of them; a step of the daemon takes a    *)
(* member out of its hands (the sorted set, the collected members, the     *)
(* member about to be re-inserted) only by appending it to the stream, and *)
(* never changes a score: a member that was not due is back in the set.    *)
(***************************************************************************)
Range(seq) == {seq[i] : i \in DOMAIN seq}

\* the members in the sorted set or in the hands of daemon d, with their scores
Held(d) == zsets[cfg.dzset] \cup Range(dmn[d].ready) \cup Range(dmn[d].items)

Appended == {MemberOfFields(MainStream, xs[i]) : i \in DOMAIN xs}

CollectedDue(d) ==
    /\ Len(dmn[d].ready) <= cfg.maxBatch
    /\ \A e \in Range(dmn[d].ready) :
         /\ e.score <= now
         /\ dmn[d].pc \in {"zpopmin", "reinsert"} => e.score <= dmn[d].tnow

OnlyForwardedLeave(d) ==
    /\ Held(d)' \subseteq Held(d)
    /\ \A e \in Held(d) \ Held(d)' :
         /\ e \in Range(dmn[d].ready)
         /\ e.member \in Appended'
         /\ Len(xs') = Len(xs) + 1

C31_PopMinFrame == [](CollectedDue("d1")) /\ [][OnlyForwardedLeave("d1")]_vars

\* the same for a client that offers the sorted-set add
C31_WithZadd ==
    /\ [](CollectedDue("d1"))
    /\ [][("zadd" \in cfg.caps) => OnlyForwardedLeave("d1")]_vars

\* a tick with maxBatch 2 has forwarded the due member and put the other
\* one, popped too early, back with its score
C31_Reinserted ==
    /\ cfg.maxBatch = 2 /\ "zadd" \in cfg.caps
    /\ dmn["d1"].pc = "sleep"
    /\ now = 0
    /\ Len(xs) = 1
    /\ \E e \in zsets[cfg.dzset] : e.score = 1
    /\ obs.own["d1"] = <<>>

\* without the sorted-set add the member popped too early is gone from the
\* set and was not appended
C31_Lost ==
    /\ "zadd" \notin cfg.caps
    /\ dmn["d1"].pc = "sleep"
    /\ zsets[cfg.dzset] = {}
    /\ \E i \in DOMAIN obs.own["d1"] :
         obs.own["d1"][i] \notin Appended

(***************************************************************************)
(* C32: the step in which the daemon drops a member, because parsing it or *)
(* appending it failed, leaves the sorted set and the stream as they are   *)
(* and goes on with the next collected member of the tick (or, after the   *)
(* last one, with the sleep before the next tick); a dropped member is     *)
(* neither in the sorted set, nor collected, nor appended.                 *)
(***************************************************************************)
DroppedGone(d) ==
    \A m \in obs.dropped :
        /\ m \notin {e.member : e \in Held(d)}
        /\ m \notin Appended

DropGoesOn(d) ==
    obs'.dropped # obs.dropped =>
        /\ zsets' = zsets
        /\ xs' = xs
        /\ dmn'[d].ready = Tail(dmn[d].ready)
        /\ dmn'[d].pc = ForwardPc(dmn'[d].ready)
        /\ dmn'[d].running = dmn[d].running

C32_DropAndGoOn == [](DroppedGone("d1")) /\ [][DropGoesOn("d1")]_vars

\* two members were due in one tick: the append of one failed and it was
\* dropped, the other one is in the stream
C32_Witness ==
    /\ Cardinality(obs.dropped) = 1
    /\ now = 0
    /\ obs.nfwd = 1
    /\ Len(xs) = 1
    /\ MemberOfFields(MainStream, xs[1]) \notin obs.dropped
    /\ zsets[cfg.dzset] = {}
    /\ dmn["d1"].pc = "sleep"

(***************************************************************************)
(* C33: a worker that took the reservation of an entry's key and ends the  *)
(* entry with the retry or the DLQ terminal no longer holds the            *)
(* reservation when it writes the successor or the DLQ record, nor after;  *)
(* and a step of a worker removes a key from the store only if the key     *)
(* held that worker's own reservation.                                     *)
(***************************************************************************)
AfterDelPcs == {"zaddRetry", "xaddRetry", "xackRetry", "xaddDlq", "xackDlq", "returned"}

ClearedBeforeSuccessor ==
    \A t \in Tasks :
        (pc[t] \in AfterDelPcs /\ cur[t].reserved /\ cur[t].res.action \in {"retry", "dlq"})
            => ~HoldsReservation(t, cur[t])

DeletesOnlyOwn ==
    \A k \in DOMAIN kv \ DOMAIN kv' :
        \/ obs'.expired # obs.expired
        \/ \E t \in Tasks : pc'[t] # pc[t] /\ kv[k] = PendingBy(Owner(t))

C33_ReservationCleared == [](ClearedBeforeSuccessor) /\ [][DeletesOnlyOwn]_vars

\* the same as long as no reservation has outlived its TTL
C33_WithinTtl ==
    [](ClearedBeforeSuccessor) /\ [][obs.expired = 0 => DeletesOnlyOwn]_vars

\* a worker has deleted its reservation and written the successor, and the
\* other worker has reserved the key for the next message
C33_ReservedAgain ==
    /\ obs.expired = 0
    /\ \E t, u \in Tasks :
         /\ Owner(t) # Owner(u)
         /\ pc[t] \in {"xackRetry", "xackDlq"} /\ cur[t].reserved
         /\ HoldsReservation(u, cur[u]) /\ cur[u].reserved

\* a worker whose reservation had expired is about to write its successor,
\* having deleted the reservation the other worker took in the meantime
C33_DeletedForeign ==
    \E t, u \in Tasks :
        /\ Owner(t) # Owner(u)
        /\ pc[t] \in {"zaddRetry", "xaddRetry", "xaddDlq"} /\ cur[t].reserved
        /\ pc[u] = "handler" /\ cur[u].reserved
        /\ cur[u].key \notin DOMAIN kv

(***************************************************************************)
(* C34: a step of the standalone pending sweeper changes nothing but the   *)
(* owner (and idle time) of at most maxPerTick pending entries that were   *)
(* idle for at least minIdleMs, which become its consumer's: no entry      *)
(* leaves or enters the pending list, no stream, sorted set or key changes *)
(* and no handler runs.  With a client without the pending or the claim    *)
(* capability the sweeper never leaves its initial state and isRunning()   *)
(* is false.                                                               *)
(***************************************************************************)
Reassigned == {i \in DOMAIN pel : i \in DOMAIN pel' /\ pel'[i] # pel[i]}

SweeperOnlyTransfers ==
    swp' # swp =>
        /\ <<xs, grp, zsets, dlq, kv, obs, pc, cur, inFlight>>' =
               <<xs, grp, zsets, dlq, kv, obs, pc, cur, inFlight>>
        /\ DOMAIN pel' = DOMAIN pel
        /\ Cardinality(Reassigned) <= cfg.maxPerTick
        /\ \A i \in Reassigned :
             /\ pel'[i].owner = SweeperConsumer
             /\ now - pel[i].since >= cfg.minIdle

SweeperDisabled == ~SweeperEnabled => (swp = SweeperOff /\ ~SweeperIsRunning)

C34_SweeperOnlyClaims == [](SweeperDisabled) /\ [][SweeperOnlyTransfers]_vars

\* the sweeper has claimed an entry that c2 read: it is pending for c1, and
\* the stream and the DLQ are as the producer and c2 left them
C34_Witness ==
    /\ swp.pc = "sleep"
    /\ \E i \in DOMAIN pel : pel[i].owner = SweeperConsumer
    /\ dlq = <<>>

(***************************************************************************)
(* C35: while the daemon has no loop promise (before the first start() and *)
(* after a stop() has resolved) no loop task exists: isRunning() is false  *)
(* and nothing is removed from the sorted set or appended by the daemon;   *)
(* so start(), which returns at once while a loop promise exists, never    *)
(* starts a second loop task.  stop() resolves only when the loop task has *)
(* exited, and a start() after that begins a new loop with running true.   *)
(***************************************************************************)
DaemonIsRunning(d) == dmn[d].loop /\ dmn[d].running

NoLoopTask(d) ==
    ~dmn[d].loop =>
        /\ dmn[d].pc \in {"off", "exited"}
        /\ dmn[d].ready = <<>> /\ dmn[d].items = <<>>
        /\ ~DaemonIsRunning(d)

DaemonLifecycle(d) ==
    /\ (dmn[d].stopping /\ ~dmn'[d].stopping) =>
           (dmn[d].pc = "exited" /\ ~dmn'[d].loop /\ ~dmn[d].running)
    /\ (~dmn[d].loop /\ ~dmn'[d].loop) =>
           (obs'.own[d] = obs.own[d] /\ obs'.nfwd = obs.nfwd)
    /\ (~dmn[d].loop /\ dmn'[d].loop) =>
           (dmn'[d].running /\ dmn'[d].pc \in {"zpopmin", "zrange"})
    /\ (dmn[d].loop /\ dmn'[d].loop /\ dmn'[d].running) => dmn[d].running

C35_DaemonLifecycle == [](NoLoopTask("d1")) /\ [][DaemonLifecycle("d1")]_vars

\* the daemon has forwarded a member, was stopped, and stop() has resolved
C35_Witness ==
    /\ obs.nfwd >= 1
    /\ dmn["d1"].pc = "exited"
    /\ ~dmn["d1"].loop /\ ~dmn["d1"].stopping

(***************************************************************************)
(* C36: the inFlight counter of a worker is the number of its tasks that   *)
(* are inside a processMessage call or at the statement that follows one   *)
(* (the decrement after a return, the catch of the loop after a throw), so *)
(* it is 0 whenever the worker processes nothing.                          *)
(***************************************************************************)
Counted(w) == {t \in Tasks : Owner(t) = w /\ pc[t] \in ProcessPcs \cup {"returned", "threw"}}

C36_InFlightCounts == \A w \in Workers : inFlight[w] = Cardinality(Counted(w))

\* the counter is never below the number of calls in progress
C36_NeverBelow == \A w \in Workers : inFlight[w] >= Cardinality(Counted(w))

\* the read loop is back at its read after a processMessage call threw, and
\* the counter still counts that call
C36_Leaked ==
    /\ cfg.variant = "current"
    /\ pc[<<"c1", "read">>] = "xreadgroup"
    /\ Counted("c1") = {}
    /\ inFlight["c1"] = 1

(***************************************************************************)
(* C37: once a stop({drain: true}) call has resolved and its deadline has  *)
(* not passed, no task of the worker starts a handler invocation.          *)
(***************************************************************************)
DrainedInTime(c) ==
    /\ stp[c].pc = "resolved" /\ stp[c].drain /\ stp[c].acted
    /\ now < stp[c].deadline

C37_NoHandlerAfterStop ==
    [][\A c \in DOMAIN stp :
         DrainedInTime(c) =>
             \A t \in Tasks :
                 (Owner(t) = c[1] /\ pc'[t] = "handler") => pc[t] = "handler"]_vars

\* stop() found nothing in flight and resolved at once; the read that was
\* blocked then returned an entry, and its handler is running
C37_HandlerAfterStop ==
    \E c \in DOMAIN stp :
        /\ DrainedInTime(c) /\ ~stp[c].waited
        /\ ~running[c[1]]
        /\ pc[<<c[1], "read">>] = "handler"

(***************************************************************************)
(* C38: a started worker on which stop() and then start() are called has   *)
(* at most one live read-loop task, whatever the state of the first loop   *)
(* when start() is called again.                                           *)
(***************************************************************************)
C38_OneReadLoop == \A w \in Workers : ReadLoops(w) <= 1

\* as long as start() has not been called again there is one loop at most
C38_BeforeRestart ==
    scall[<<"c1", "s1">>] = "idle" => C38_OneReadLoop

\* stop() resolved while the loop was blocked in its read, start() resolved
\* after it: the worker runs and two loops are reading
C38_TwoLoops ==
    /\ stp[<<"c1", "p1">>].pc = "resolved"
    /\ scall[<<"c1", "s1">>] = "resolved"
    /\ running["c1"]
    /\ pc[<<"c1", "read">>] = "xreadgroup" /\ pc[<<"c1", "read2">>] = "xreadgroup"

(***************************************************************************)
(* C39: no entry is inside two processMessage calls of live tasks at the   *)
(* same time: while a task processes an id, no claim loop of the same or   *)
(* of another worker has claimed that id and hands it to the handler.      *)
(***************************************************************************)
C39_NotProcessedTwice ==
    \A t, u \in Tasks :
        (t # u /\ pc[t] \in ProcessPcs /\ pc[u] \in ProcessPcs)
            => cur[t].id # cur[u].id

\* before an entry has been pending for minIdleMs it is in one call at most
C39_WithinMinIdle ==
    \A t, u \in Tasks :
        (t # u /\ pc[t] \in ProcessPcs /\ pc[u] \in ProcessPcs
             /\ cur[t].id = cur[u].id)
            => now >= cfg.minIdle

\* the handler of the read loop is still running on an entry that a claim
\* loop has claimed and handed to the handler as well
C39_Reclaimed ==
    \E t, u \in Tasks :
        /\ IsReadTask(t) /\ ~IsReadTask(u)
        /\ pc[t] = "handler" /\ pc[u] = "handler"
        /\ cur[t].id = cur[u].id

(***************************************************************************)
(* C40: an entry the read loop was given is processed: as long as no       *)
(* client call has failed, every pending entry that decodes is still in    *)
(* the hands of a task (being processed, or waiting in the batch it was    *)
(* read with), also when an earlier entry of its batch made processMessage *)
(* throw.                                                                  *)
(***************************************************************************)
C40_BatchProcessed ==
    fails = MaxFail =>
        \A i \in DOMAIN pel : Decodable(xs[i]) => i \in InHand

\* the same for the consumer of src/consumer.ts alone
C40_LegacyProcessed == cfg.variant = "legacy" => C40_BatchProcessed

\* an entry that decodes was read in one batch with an entry that does not,
\* and is pending with the read loop back at its sleep and nothing in hand
C40_Skipped ==
    /\ fails = MaxFail
    /\ pc[<<"c1", "read">>] = "sleep"
    /\ batch[<<"c1", "read">>] = <<>>
    /\ \E i \in DOMAIN pel :
         /\ i > 1 /\ i - 1 \in DOMAIN pel
         /\ ~Decodable(xs[i - 1]) /\ Decodable(xs[i])
         /\ pel[i].owner = "c1"

(***************************************************************************)
(* C3: with maxAttempts = N and a retryable error, policy.next returns dlq *)
(* with reason maxAttempts(N) for attempt >= N-1 and retry with a delay    *)
(* for attempt < N-1.                                                      *)
(***************************************************************************)
C3_MaxAttempts ==
    (pol.res # NoResult /\ IsRetryable(pol.opts, pol.err)) =>
        IF pol.attempt >= pol.opts.maxAttempts - 1
        THEN pol.res = DlqResult(MaxAttemptsReason(pol.opts.maxAttempts))
        ELSE pol.res.action = "retry" /\ pol.res.delayMs \in Nat

C3_Witness ==
    /\ pol.res.action = "dlq"
    /\ IsRetryable(pol.opts, pol.err)
    /\ pol.attempt = pol.opts.maxAttempts - 1
    /\ pol.opts.maxAttempts >= 2

====
